---- MODULE Spec2Model ----
(***************************************************************************)
(* Model of the meshgrid CLI's serial protocol stack:                      *)
(*   - the COBS frame codec            (src/src/serial.rs)                 *)
(*   - the response classifier         (src/src/protocol.rs)               *)
(*   - the command/response engine     (src/src/protocol.rs, serial.rs)    *)
(*   - the callers of the engine       (commands, src/src/ui.rs)           *)
(* Three specifications share the module: SpecCodec (the pure codec),      *)
(* SpecClassify (the pure classification of one frame text) and Spec (the  *)
(* engine with its transport, its clock, the device and the callers).      *)
(***************************************************************************)
EXTENDS Integers, Sequences, FiniteSets, TLC

VARIABLES
    \* ---- codec (SpecCodec)
    cpc,        \* position of the codec run
    data,       \* the byte sequence handed to cobs_encode / cobs_decode
    encoded,    \* cobs_encode's result (possibly damaged afterwards)
    wire,       \* the bytes write_cobs_frame put on the wire
    decoded,    \* cobs_decode's result: an Option<Vec<u8>>
    \* ---- response classifier (SpecClassify)
    lpc,        \* position of the classification run
    frame,      \* the decoded frame read_response got from the transport
    outcome,    \* what one pass of read_response's loop does with it
    \* ---- command engine, transport, clock, device, caller (Spec)
    pc,           \* position inside Protocol::command
    rx,           \* bytes the port has received and nobody has read yet
    read_buf,     \* SerialPort::read_buf
    skip_count,   \* read_response's skip_count
    result,       \* what the last command() returned
    drainElapsed, \* clear(): start.elapsed(), in units of 100 ms
    readElapsed,  \* seconds the pending read_cobs_frame_timeout has waited
    devMid,       \* the device has sent a frame's body, not yet its delimiter
    inflight,     \* command frames written whose command() has not returned
    sinceWrite,   \* seconds since the command's frame was written (observer)
    g,            \* observer of the frames the current command consumed
    mode,         \* who calls command(): a one-shot CLI command, or the TUI
    cmdq,         \* messages in the TUI's command channel (tx_cmd -> rx_cmd)
    \* ---- typed helpers over command() (SpecHelper)
    hpc,          \* position of the helper call
    helper,       \* the Protocol / Device operation called
    reply,        \* what its command() call returned
    fits,         \* serde_json::from_value accepts the reply's JSON for the record
    hres,         \* what the operation returned to its caller
    \* ---- raw packet receive (SpecRecvPacket)
    kpc,          \* position inside Protocol::recv_packet
    sent,         \* the bytes the device sends, in order
    port_in,      \* the bytes of them the port has not handed out yet
    pk_read_buf,  \* SerialPort::read_buf
    pkt_len,          \* recv_packet's len
    pkt_buf,          \* recv_packet's buf[..read]
    kres,         \* what recv_packet returned
    k_end,        \* the port after the bytes of port_in: open, at end of stream, or failing
    k_zero,       \* parity of the zero-byte reads of the payload loop (observer)
    \* ---- raw packet send (SpecSendPacket)
    spc,          \* position inside Protocol::send_packet
    packet,       \* send_packet's argument
    tx,           \* the bytes written to the port, in order
    sreply,       \* what read_response returned to send_packet
    sres,         \* what send_packet returned
    s_stale,      \* the response frame read_buf or the port held when send_packet was called
    s_origin,     \* whether the frame read_response returned was sent before or after the call (observer)
    \* ---- trace (SpecTrace)
    tpc,          \* position inside Protocol::trace
    treply,       \* what command("TRACE ..") returned
    trace_elapsed,      \* start.elapsed(), in units of 100 ms
    waited,       \* time spent in the current read_line_timeout
    tline,        \* the last line read_line_timeout returned
    nlines,       \* lines the device has sent since the reply
    polled,       \* read_line_timeout was called
    tres,         \* what trace returned
    \* ---- monitor events (SpecEvent)
    epc,          \* position inside Protocol::read_event
    intent,       \* the monitor line the device sends next, by its parts
    eline,        \* the line read_line_timeout returned, if any
    eres,         \* what read_event returned
    nignored,     \* lines dropped so far by the monitor loop
    \* ---- TUI tasks (SpecTui)
    bpc,          \* position of the spawned device task
    fpc,          \* position of the foreground task
    emitted,      \* the lines the device has emitted: TRUE for an event line
    pending,      \* emitted lines not yet read, oldest first
    evq,          \* the tx_event / rx_event channel, oldest first
    taken,        \* the events the foreground took, in order
    cmd_chan,     \* messages waiting in the tx_cmd / rx_cmd channel
    timer_fired,  \* read_event's 100 ms have passed
    users,        \* tasks that used the transport since the spawn
    \* ---- TUI and monitor sessions (SpecSession)
    smode,        \* "tui" (ui::run) or "monitor" (Device::monitor)
    sfpc,         \* position of the foreground task
    sbpc,         \* position of the TUI's device task
    lock,         \* the task that holds the App mutex
    s_chan,       \* messages waiting in tx_cmd / rx_cmd
    should_quit,  \* App::should_quit, or !running in Device::monitor
    send_errs,    \* "Send error" entries in the log
    read_errs,    \* "Read error" entries in the log
    mon_errs,     \* "Monitor error" entries in the log
    timeouts,     \* reads that timed out with no line
    \* ---- timed reads of SerialPort (SpecSerialRead)
    sr_pc,        \* position inside the timed read
    sr_op,        \* read_line_timeout or read_cobs_frame_timeout
    sr_port,      \* the bytes the port delivers before the timeout, in order
    sr_end,       \* the port after them: open, at end of stream, or failing
    sr_buf,       \* SerialPort::read_buf
    sr_res,       \* what the timed read returned
    sr_out,       \* what the reads so far have returned, in order
    sr_got,       \* every byte read_buf has held or holds (observer)
    \* ---- the message log of the TUI (SpecLog)
    app_messages, \* App::messages, each entry by the number of the call that added it
    app_calls,    \* add_message calls so far
    \* ---- the neighbor table of the TUI (SpecNeighbors)
    app_neighbors,\* App::neighbors: its entries, last_seen as seconds of age
    app_last,     \* the arguments of the update_neighbor call that just returned
    \* ---- the input line of the TUI (SpecInput)
    app_input,    \* App::input, as its UTF-8 bytes
    app_cursor,   \* App::cursor
    ui_pc,        \* run_ui_loop: in its loop, or unwound by a panic
    ui_key,       \* the code of the key event handled last, and the parity of their number (observer)
    submitted,    \* the inputs Enter found non-empty, in order (observer)
    sent_log,     \* the contents add_sent logged, in order
    tx_cmd,       \* the messages in the tx_cmd / rx_cmd channel, oldest first
    rx_open,      \* the device task still holds rx_cmd
    port_tx,      \* the commands the device task has written to the port, in order
    \* ---- the advert command (SpecAdvert)
    adv_pc,       \* position inside cmd_advert
    local_only,   \* cmd_advert's local_only
    flood_only,   \* cmd_advert's flood_only
    adv_trace,    \* the commands cmd_advert has written and what command() returned for them, in order
    adv_res       \* what cmd_advert returned

codecVars == <<cpc, data, encoded, wire, decoded>>
classifyVars == <<lpc, frame, outcome>>
engineVars == <<pc, rx, read_buf, skip_count, result, drainElapsed,
                readElapsed, devMid, inflight, sinceWrite, g, mode, cmdq>>
helperVars == <<hpc, helper, reply, fits, hres>>
recvVars == <<kpc, sent, port_in, pk_read_buf, pkt_len, pkt_buf, kres, k_end, k_zero>>
sendVars == <<spc, packet, tx, sreply, sres, s_stale, s_origin>>
traceVars == <<tpc, treply, trace_elapsed, waited, tline, nlines, polled, tres>>
eventVars == <<epc, intent, eline, eres, nignored>>
tuiVars == <<bpc, fpc, emitted, pending, evq, taken, cmd_chan, timer_fired, users>>
sessVars == <<smode, sfpc, sbpc, lock, s_chan, should_quit, send_errs, read_errs, mon_errs, timeouts>>
serialVars == <<sr_pc, sr_op, sr_port, sr_end, sr_buf, sr_res, sr_out, sr_got>>
logVars == <<app_messages, app_calls>>
neighborVars == <<app_neighbors, app_last>>
inputVars == <<app_input, app_cursor, ui_pc, ui_key, submitted, sent_log, tx_cmd, rx_open, port_tx>>
advertVars == <<adv_pc, local_only, flood_only, adv_trace, adv_res>>

\* what the codec runs leave alone
notCodecVars == <<classifyVars, engineVars, helperVars, recvVars, sendVars, traceVars, eventVars, tuiVars, sessVars, serialVars, logVars, neighborVars, inputVars, advertVars>>
\* what the classification runs leave alone
notClassifyVars == <<codecVars, engineVars, helperVars, recvVars, sendVars, traceVars, eventVars, tuiVars, sessVars, serialVars, logVars, neighborVars, inputVars, advertVars>>
\* what the engine leaves alone
notEngineVars == <<codecVars, classifyVars, helperVars, recvVars, sendVars, traceVars, eventVars, tuiVars, sessVars, serialVars, logVars, neighborVars, inputVars, advertVars>>
\* what the typed helpers leave alone
notHelperVars == <<codecVars, classifyVars, engineVars, recvVars, sendVars, traceVars, eventVars, tuiVars, sessVars, serialVars, logVars, neighborVars, inputVars, advertVars>>
\* what recv_packet leaves alone
notRecvVars == <<codecVars, classifyVars, engineVars, helperVars, sendVars, traceVars, eventVars, tuiVars, sessVars, serialVars, logVars, neighborVars, inputVars, advertVars>>
\* what send_packet leaves alone
notSendVars == <<codecVars, classifyVars, engineVars, helperVars, recvVars, traceVars, eventVars, tuiVars, sessVars, serialVars, logVars, neighborVars, inputVars, advertVars>>
\* what trace leaves alone
notTraceVars == <<codecVars, classifyVars, engineVars, helperVars, recvVars, sendVars, eventVars, tuiVars, sessVars, serialVars, logVars, neighborVars, inputVars, advertVars>>
\* what read_event leaves alone
notEventVars == <<codecVars, classifyVars, engineVars, helperVars, recvVars, sendVars, traceVars, tuiVars, sessVars, serialVars, logVars, neighborVars, inputVars, advertVars>>
\* what the TUI's tasks leave alone
notTuiVars == <<codecVars, classifyVars, engineVars, helperVars, recvVars, sendVars, traceVars, eventVars, sessVars, serialVars, logVars, neighborVars, inputVars, advertVars>>
\* what the sessions leave alone
notSessVars == <<codecVars, classifyVars, engineVars, helperVars, recvVars, sendVars, traceVars, eventVars, tuiVars, serialVars, logVars, neighborVars, inputVars, advertVars>>
\* what the timed reads leave alone
notSerialVars == <<codecVars, classifyVars, engineVars, helperVars, recvVars, sendVars, traceVars, eventVars, tuiVars, sessVars, logVars, neighborVars, inputVars, advertVars>>
\* what the message log leaves alone
notLogVars == <<codecVars, classifyVars, engineVars, helperVars, recvVars, sendVars, traceVars, eventVars, tuiVars, sessVars, serialVars, neighborVars, inputVars, advertVars>>
\* what the neighbor table leaves alone
notNeighborVars == <<codecVars, classifyVars, engineVars, helperVars, recvVars, sendVars, traceVars, eventVars, tuiVars, sessVars, serialVars, logVars, inputVars, advertVars>>
\* what the input line leaves alone
notInputVars == <<codecVars, classifyVars, engineVars, helperVars, recvVars, sendVars, traceVars, eventVars, tuiVars, sessVars, serialVars, logVars, neighborVars, advertVars>>
\* what the advert command leaves alone
notAdvertVars == <<codecVars, classifyVars, engineVars, helperVars, recvVars, sendVars, traceVars, eventVars, tuiVars, sessVars, serialVars, logVars, neighborVars, inputVars>>

vars == <<cpc, data, encoded, wire, decoded, lpc, frame, outcome,
          pc, rx, read_buf, skip_count, result, drainElapsed,
          readElapsed, devMid, inflight, sinceWrite, g, mode, cmdq,
          hpc, helper, reply, fits, hres,
          kpc, sent, port_in, pk_read_buf, pkt_len, pkt_buf, kres, k_end, k_zero,
          spc, packet, tx, sreply, sres, s_stale, s_origin,
          tpc, treply, trace_elapsed, waited, tline, nlines, polled, tres,
          epc, intent, eline, eres, nignored,
          bpc, fpc, emitted, pending, evq, taken, cmd_chan, timer_fired, users,
          smode, sfpc, sbpc, lock, s_chan, should_quit, send_errs, read_errs, mon_errs, timeouts,
          sr_pc, sr_op, sr_port, sr_end, sr_buf, sr_res, sr_out, sr_got,
          app_messages, app_calls,
          app_neighbors, app_last,
          app_input, app_cursor, ui_pc, ui_key, submitted, sent_log, tx_cmd, rx_open, port_tx,
          adv_pc, local_only, flood_only, adv_trace, adv_res>>

(***************************************************************************)
(* Option<T>                                                               *)
(***************************************************************************)
None == [some |-> FALSE, v |-> <<>>]
Some(x) == [some |-> TRUE, v |-> x]

Min(a, b) == IF a < b THEN a ELSE b

\* enum Response, protocol.rs:118-125
NoResponse == [tag |-> "none", msg |-> None, value |-> <<>>]
ResponseOk(m) == [tag |-> "Ok", msg |-> m, value |-> <<>>]
ResponseError(m) == [tag |-> "Error", msg |-> Some(m), value |-> <<>>]
ResponseJson(v) == [tag |-> "Json", msg |-> None, value |-> v]

\* what one pass of read_response's loop does with a frame
NoOutcome == [act |-> "none", why |-> "none", resp |-> NoResponse]
Skip(why) == [act |-> "skip", why |-> why, resp |-> NoResponse]
Return(r) == [act |-> "return", why |-> r.tag, resp |-> r]
Fail(why) == [act |-> "fail", why |-> why, resp |-> NoResponse]

(***************************************************************************)
(* Frame codec, serial.rs:12-76                                            *)
(***************************************************************************)
\* 0xFF: the code byte of a full group (254 data bytes, no implied zero)
MaxCodeByte == 255

\* u8::wrapping_add(1)
WrappingInc(code) == (code + 1) % 256

\* the encoder flushes the group without ever testing for a full code byte
CodeFullNever(code) == FALSE

\* `if code == 0xFF` after the increment
CodeFull(code) == code = MaxCodeByte

\* one iteration of the `for &byte in data` loop on the encoder state
\* (enc, code_ptr, code); code_ptr is the 1-based position of the pending
\* code byte placeholder
EncodeStep(st, byte) ==
    IF byte = 0
    THEN [enc      |-> Append([st.enc EXCEPT ![st.code_ptr] = st.code], 0),
          code_ptr |-> Len(st.enc) + 1,
          code     |-> 1]
    ELSE LET e1 == Append(st.enc, byte)
             c1 == WrappingInc(st.code)
         IN  IF CodeFull(c1)
             THEN [enc      |-> Append([e1 EXCEPT ![st.code_ptr] = c1], 0),
                   code_ptr |-> Len(e1) + 1,
                   code     |-> 1]
             ELSE [enc |-> e1, code_ptr |-> st.code_ptr, code |-> c1]

\* the loop over bytes[lo..hi], left to right (split in halves so that the
\* evaluation depth stays logarithmic in the length)
RECURSIVE EncodeLoop(_, _, _, _)
EncodeLoop(bytes, lo, hi, st) ==
    IF lo > hi THEN st
    ELSE IF lo = hi THEN EncodeStep(st, bytes[lo])
    ELSE LET mid  == (lo + hi) \div 2
             left == EncodeLoop(bytes, lo, mid, st)
         IN  \* the test makes TLC evaluate the left half first
             IF left.code > 0 THEN EncodeLoop(bytes, mid + 1, hi, left)
             ELSE left

cobs_encode(bytes) ==
    LET st == EncodeLoop(bytes, 1, Len(bytes),
                         [enc |-> <<0>>, code_ptr |-> 1, code |-> 1])
    IN  \* "Write final code byte"
        [st.enc EXCEPT ![st.code_ptr] = st.code]

\* a decoder that implies a zero after every group, full or not
InsertZeroAlways(code, i, len) == i < len

\* `if code < 0xFF && i < data.len()`
InsertZero(code, i, len) == code < MaxCodeByte /\ i < len

\* the `while i < data.len()` loop; i is the 0-based index of the code
RECURSIVE DecodeLoop(_, _, _)
DecodeLoop(bytes, i, dec) ==
    IF ~(i < Len(bytes))
    THEN Some(dec)
    ELSE LET code == bytes[i + 1] IN
         IF code = 0
         THEN None
         ELSE LET i1 == i + 1
                  \* `for _ in 1..code` with `if i >= data.len() { break; }`
                  n  == Min(code - 1, Len(bytes) - i1)
                  d1 == dec \o SubSeq(bytes, i1 + 1, i1 + n)
                  i2 == i1 + n
                  d2 == IF InsertZero(code, i2, Len(bytes))
                        THEN Append(d1, 0) ELSE d1
              IN  DecodeLoop(bytes, i2, d2)

cobs_decode(bytes) ==
    IF bytes = <<>> THEN Some(<<>>) ELSE DecodeLoop(bytes, 0, <<>>)

\* write_cobs_frame: write_all(encoded); write_all([0]); flush
WireBytes(bytes) == cobs_encode(bytes) \o <<0>>

(***************************************************************************)
(* Inputs of the codec runs                                                *)
(***************************************************************************)
MaxLen == 4         \* length of the exhaustively enumerated byte sequences
MaxPad == 1         \* length of what surrounds a long run of non-zero bytes
MaxCut == 2         \* how many trailing bytes a truncation may drop

ByteAlphabet == {0, 1, 2, MaxCodeByte}
PadAlphabet == {0, 1}

SeqsUpTo(S, n) == UNION {[1..m -> S] : m \in 0..n}

Run(n, b) == [j \in 1..n |-> b]

\* runs that just miss, exactly fill, and overflow one or two full groups
RunLens == {MaxCodeByte - 2, MaxCodeByte - 1, MaxCodeByte, 2 * (MaxCodeByte - 1)}

LongInputs ==
    {p \o Run(n, b) \o s : p \in SeqsUpTo(PadAlphabet, MaxPad),
                           s \in SeqsUpTo(PadAlphabet, MaxPad),
                           n \in RunLens, b \in {1, MaxCodeByte}}

CodecInputs == SeqsUpTo(ByteAlphabet, MaxLen) \cup LongInputs

(***************************************************************************)
(* SpecCodec: one run of the codec on one input                            *)
(***************************************************************************)
CodecIdle ==
    /\ cpc = "off"
    /\ data = <<>>
    /\ encoded = <<>>
    /\ wire = <<>>
    /\ decoded = None

ClassifyIdle ==
    /\ lpc = "off"
    /\ frame = <<>>
    /\ outcome = NoOutcome

\* what command() returned: a Response, or one of its failures
NoResult == [kind |-> "none", resp |-> NoResponse]

\* the observer: which kinds of frame the command skipped and how many,
\* whether the port delivered any byte while it waited, whether the read
\* it ended in had waited CMD_TIMEOUT, the text of the frame it ended with
\* and when the port had received that frame, and whether read_buf held
\* bytes when the command was called, and whether a read of clear() failed
NoObservation ==
    [sawDebug |-> FALSE, sawUnrec |-> FALSE, nSkip |-> 0, recv |-> FALSE,
     expired |-> FALSE, hadBuffered |-> FALSE, last |-> <<>>,
     lastOrigin |-> "none", clearFailed |-> FALSE]

EngineStart ==
    /\ pc = "idle"
    /\ rx = <<>>
    /\ read_buf = <<>>
    /\ skip_count = 0
    /\ result = NoResult
    /\ drainElapsed = 0
    /\ readElapsed = 0
    /\ devMid = FALSE
    /\ inflight = 0
    /\ sinceWrite = 0
    /\ g = NoObservation
    /\ cmdq = 0

EngineIdle ==
    /\ EngineStart
    /\ mode = "oneshot"

\* Result<T> of an operation, before it has returned
NoHelperResult == [ok |-> FALSE, err |-> "none", msg |-> <<>>]

HelperIdle ==
    /\ hpc = "off"
    /\ helper = "none"
    /\ reply = NoResult
    /\ fits = FALSE
    /\ hres = NoHelperResult

\* Result<Option<Vec<u8>>> of recv_packet, before it has returned
NoPacketResult == [kind |-> "none", data |-> <<>>]

RecvIdle ==
    /\ kpc = "off"
    /\ sent = <<>>
    /\ port_in = <<>>
    /\ pk_read_buf = <<>>
    /\ pkt_len = 0
    /\ pkt_buf = <<>>
    /\ kres = NoPacketResult
    /\ k_end = "open"
    /\ k_zero = 0

SendIdle ==
    /\ spc = "off"
    /\ packet = <<>>
    /\ tx = <<>>
    /\ sreply = NoResult
    /\ sres = NoHelperResult
    /\ s_stale = NoResult
    /\ s_origin = "none"

TraceIdle ==
    /\ tpc = "off"
    /\ treply = NoResult
    /\ trace_elapsed = 0
    /\ waited = 0
    /\ tline = None
    /\ nlines = 0
    /\ polled = FALSE
    /\ tres = NoHelperResult

\* a monitor line by its parts: keyword, the fields that follow it, each
\* after one space, and the remainder after a last space, if there is one
Intent(kw, fields, rest) == [kw |-> kw, fields |-> fields, rest |-> rest]
NoIntent == Intent("", <<>>, None)

\* MonitorEvent (protocol.rs:594-612), one record shape for the four
\* variants; a field a variant does not have keeps its default
NoEvent ==
    [type |-> "none", from |-> <<>>, to |-> None, rssi |-> 0, text |-> <<>>,
     node_hash |-> 0, name |-> None, message |-> <<>>]

\* Result<Option<MonitorEvent>> of read_event, before it has returned
NoEventResult == [kind |-> "none", ev |-> NoEvent]

EventIdle ==
    /\ epc = "off"
    /\ intent = NoIntent
    /\ eline = None
    /\ eres = NoEventResult
    /\ nignored = 0

TuiIdle ==
    /\ bpc = "off"
    /\ fpc = "off"
    /\ emitted = <<>>
    /\ pending = <<>>
    /\ evq = <<>>
    /\ taken = <<>>
    /\ cmd_chan = 0
    /\ timer_fired = FALSE
    /\ users = {}

SessIdle ==
    /\ smode = "off"
    /\ sfpc = "off"
    /\ sbpc = "off"
    /\ lock = "none"
    /\ s_chan = 0
    /\ should_quit = FALSE
    /\ send_errs = 0
    /\ read_errs = 0
    /\ mon_errs = 0
    /\ timeouts = 0

SerialIdle ==
    /\ sr_pc = "off"
    /\ sr_op = "none"
    /\ sr_port = <<>>
    /\ sr_end = "open"
    /\ sr_buf = <<>>
    /\ sr_res = [kind |-> "pending", v |-> <<>>]
    /\ sr_out = <<>>
    /\ sr_got = <<>>

LogIdle ==
    /\ app_messages = <<>>
    /\ app_calls = 0

NeighborIdle ==
    /\ app_neighbors = {}
    /\ app_last = [called |-> FALSE, hash |-> 0, name |-> None, rssi |-> 0]

InputIdle ==
    /\ app_input = <<>>
    /\ app_cursor = 0
    /\ ui_pc = "off"
    /\ ui_key = [code |-> "none", parity |-> 0]
    /\ submitted = <<>>
    /\ sent_log = <<>>
    /\ tx_cmd = <<>>
    /\ rx_open = FALSE
    /\ port_tx = <<>>

AdvertIdle ==
    /\ adv_pc = "off"
    /\ local_only = FALSE
    /\ flood_only = FALSE
    /\ adv_trace = <<>>
    /\ adv_res = "none"

CodecInit ==
    /\ cpc = "start"
    /\ data \in CodecInputs
    /\ encoded = <<>>
    /\ wire = <<>>
    /\ decoded = None
    /\ ClassifyIdle
    /\ EngineIdle
    /\ HelperIdle
    /\ RecvIdle
    /\ SendIdle
    /\ TraceIdle
    /\ EventIdle
    /\ TuiIdle
    /\ SessIdle
    /\ SerialIdle
    /\ LogIdle
    /\ NeighborIdle
    /\ InputIdle
    /\ AdvertIdle

\* cobs_encode(data)
CodecEncode ==
    /\ cpc = "start"
    /\ encoded' = cobs_encode(data)
    /\ cpc' = "encoded"
    /\ UNCHANGED <<data, wire, decoded>>
    /\ UNCHANGED notCodecVars

\* write_cobs_frame(data)
CodecWriteFrame ==
    /\ cpc = "encoded"
    /\ wire' = WireBytes(data)
    /\ cpc' = "written"
    /\ UNCHANGED <<data, encoded, decoded>>
    /\ UNCHANGED notCodecVars

\* cobs_decode of what cobs_encode produced
CodecDecode ==
    /\ cpc = "written"
    /\ decoded' = cobs_decode(encoded)
    /\ cpc' = "decoded"
    /\ UNCHANGED <<data, encoded, wire>>
    /\ UNCHANGED notCodecVars

\* the link drops the tail of an encoded buffer
CodecTruncate ==
    /\ cpc = "encoded"
    /\ \E cut \in 1..MaxCut :
          /\ cut <= Len(encoded)
          /\ encoded' = SubSeq(encoded, 1, Len(encoded) - cut)
    /\ cpc' = "damaged"
    /\ UNCHANGED <<data, wire, decoded>>
    /\ UNCHANGED notCodecVars

\* cobs_decode of a damaged buffer
CodecDecodeDamaged ==
    /\ cpc = "damaged"
    /\ decoded' = cobs_decode(encoded)
    /\ cpc' = "rawdecoded"
    /\ UNCHANGED <<data, encoded, wire>>
    /\ UNCHANGED notCodecVars

\* cobs_decode of an arbitrary received buffer (data taken as the buffer)
CodecDecodeRaw ==
    /\ cpc = "start"
    /\ Len(data) <= MaxLen
    /\ encoded' = data
    /\ decoded' = cobs_decode(data)
    /\ cpc' = "rawdecoded"
    /\ UNCHANGED <<data, wire>>
    /\ UNCHANGED notCodecVars

CodecNext ==
    \/ CodecEncode
    \/ CodecWriteFrame
    \/ CodecDecode
    \/ CodecTruncate
    \/ CodecDecodeDamaged
    \/ CodecDecodeRaw

SpecCodec == CodecInit /\ [][CodecNext]_vars

(***************************************************************************)
(* Codec claims                                                            *)
(***************************************************************************)
ZeroPositions(bytes) == {j \in 1..Len(bytes) : bytes[j] = 0}

\* C1: for every byte sequence b (empty, all zero, ending in zero, runs of
\* 254 and more non-zero bytes), cobs_decode(cobs_encode(b)) is exactly b.
C1_RoundTrip ==
    cpc = "decoded" => decoded = Some(data)

\* a round trip over a full group followed by a zero has been completed
C1_Witness ==
    /\ cpc = "decoded"
    /\ Len(data) >= MaxCodeByte
    /\ data[Len(data)] = 0
    /\ decoded = Some(data)

\* C2: cobs_encode(b) contains no zero byte, so what write_cobs_frame(b) puts
\* on the wire contains exactly one zero byte, and it is the last one.
C2_FramingInvariant ==
    /\ cpc \in {"encoded", "written", "decoded"} =>
          /\ encoded = cobs_encode(data)
          /\ ZeroPositions(encoded) = {}
    /\ cpc \in {"written", "decoded"} =>
          /\ ZeroPositions(wire) = {Len(wire)}
          /\ SubSeq(wire, 1, Len(wire) - 1) = encoded

\* a frame of a payload with zeros and a run longer than one group is on
\* the wire
C2_Witness ==
    /\ cpc = "written"
    /\ Len(data) > MaxCodeByte
    /\ ZeroPositions(data) # {}
    /\ wire[Len(wire)] = 0

\* the groups of a buffer tile it exactly: every code byte is non-zero, is
\* followed by code - 1 non-zero data bytes, and the next code follows them
RECURSIVE WellFormedFrom(_, _)
WellFormedFrom(buf, i) ==
    IF i > Len(buf) THEN TRUE
    ELSE /\ buf[i] # 0
         /\ i + buf[i] - 1 <= Len(buf)
         /\ \A j \in (i + 1)..(i + buf[i] - 1) : buf[j] # 0
         /\ WellFormedFrom(buf, i + buf[i])

WellFormed(buf) == WellFormedFrom(buf, 1)

\* C3: cobs_decode of a truncated or corrupted buffer, in particular one
\* whose code byte claims more data bytes than remain, returns None, never
\* a partial or otherwise wrong payload.
C3_MalformedIsRejected ==
    (cpc = "rawdecoded" /\ ~WellFormed(encoded)) => decoded = None


(***************************************************************************)
(* Response classification, protocol.rs:212-253.                           *)
(* A frame's text is a sequence of atoms: the keywords the classifier      *)
(* looks for, the JSON punctuation, a whitespace character, an ordinary    *)
(* character, and two JSON members: DBG stands for "type":"debug" (with    *)
(* whatever else a debug frame carries), KV for any other member.          *)
(***************************************************************************)
TextAlphabet ==
    {"OK", "ERR", "PKT", "PONG", "{", "}", "[", "]", " ", "x", "DBG", "KV", "xFF"}

\* String::from_utf8_lossy: an invalid byte becomes U+FFFD
from_utf8_lossy(bytes) ==
    [j \in 1..Len(bytes) |-> IF bytes[j] = "xFF" THEN "uFFFD" ELSE bytes[j]]

\* str::starts_with
StartsWith(t, a) == Len(t) >= 1 /\ t[1] = a

IsSpace(a) == a = " "

\* str::trim_start / trim_end / trim
RECURSIVE TrimStart(_)
TrimStart(t) ==
    IF t # <<>> /\ IsSpace(Head(t)) THEN TrimStart(Tail(t)) ELSE t

RECURSIVE TrimEnd(_)
TrimEnd(t) ==
    IF t # <<>> /\ IsSpace(t[Len(t)])
    THEN TrimEnd(SubSeq(t, 1, Len(t) - 1)) ELSE t

Trim(t) == TrimEnd(TrimStart(t))

\* the JSON grammar on the atoms: an object with at most one member, an
\* array that is empty or holds one value, whitespace allowed inside;
\* "TYPE_TRACE" is the member "type":"trace_response"
JsonMembers == {"DBG", "KV", "TYPE_TRACE"}

RECURSIVE IsJsonValue(_)
IsJsonValue(t) ==
    /\ Len(t) >= 2
    /\ LET inner == Trim(SubSeq(t, 2, Len(t) - 1)) IN
       \/ /\ t[1] = "{" /\ t[Len(t)] = "}"
          /\ inner \in {<<>>} \cup {<<m>> : m \in JsonMembers}
       \/ /\ t[1] = "[" /\ t[Len(t)] = "]"
          /\ (inner = <<>> \/ IsJsonValue(inner))

\* serde_json::from_str::<Value>: whitespace around the value is accepted;
\* the Value no longer holds the text's whitespace
serde_json_from_str(text) ==
    IF IsJsonValue(Trim(text))
    THEN Some(SelectSeq(text, LAMBDA a : ~IsSpace(a)))
    ELSE None

\* a debug test that never finds the tag
IsDebugNever(value) == FALSE

\* json.get("type").and_then(|v| v.as_str()) == Some("debug")
IsDebug(value) == value = <<"{", "DBG", "}">>

\* protocol.rs:216-253 on the text of one frame
Classify(text) ==
    LET json == serde_json_from_str(text) IN
    IF json.some /\ IsDebug(json.v)
    THEN Skip("debug")
    ELSE IF StartsWith(text, "OK")
    THEN LET d == Trim(Tail(text))
         IN  Return(ResponseOk(IF d = <<>> THEN None ELSE Some(d)))
    ELSE IF StartsWith(text, "ERR")
    THEN Return(ResponseError(Trim(Tail(text))))
    ELSE IF StartsWith(text, "{") \/ StartsWith(text, "[")
    THEN \* serde_json::from_str(&line)?
         IF json.some THEN Return(ResponseJson(json.v)) ELSE Fail("json")
    ELSE IF StartsWith(text, "PKT")
    THEN Return(ResponseOk(Some(text)))
    ELSE IF StartsWith(text, "PONG")
    THEN Return(ResponseOk(Some(text)))
    ELSE Skip("unrecognized")

(***************************************************************************)
(* SpecClassify: one pass of read_response's loop on one frame             *)
(***************************************************************************)
MaxLineLen == 3     \* atoms in a frame's text

ClassifyInit ==
    /\ lpc = "frame"
    /\ frame \in SeqsUpTo(TextAlphabet, MaxLineLen)
    /\ outcome = NoOutcome
    /\ CodecIdle
    /\ EngineIdle
    /\ HelperIdle
    /\ RecvIdle
    /\ SendIdle
    /\ TraceIdle
    /\ EventIdle
    /\ TuiIdle
    /\ SessIdle
    /\ SerialIdle
    /\ LogIdle
    /\ NeighborIdle
    /\ InputIdle
    /\ AdvertIdle

\* protocol.rs:212-253
ClassifyFrame ==
    /\ lpc = "frame"
    /\ outcome' = Classify(from_utf8_lossy(frame))
    /\ lpc' = "classified"
    /\ UNCHANGED frame
    /\ UNCHANGED notClassifyVars

ClassifyNext == ClassifyFrame

SpecClassify == ClassifyInit /\ [][ClassifyNext]_vars

\* C4: "OK" alone or followed by whitespace gives Ok(None); "OK <msg>" gives
\* Ok(Some(msg)) with msg trimmed; text starting with "ERR" gives
\* Error(trimmed remainder); text that parses as a JSON object or array and
\* is not tagged debug gives Json(value); text starting with "PKT" or "PONG"
\* gives Ok(Some(the whole text)).
C4_Classification ==
    lpc = "classified" =>
        LET text == from_utf8_lossy(frame)
            rest == Trim(Tail(text))
            json == serde_json_from_str(text)
        IN  /\ (StartsWith(text, "OK") /\ rest = <<>>) =>
                   outcome = Return(ResponseOk(None))
            /\ (StartsWith(text, "OK") /\ rest # <<>>) =>
                   outcome = Return(ResponseOk(Some(rest)))
            /\ StartsWith(text, "ERR") =>
                   outcome = Return(ResponseError(rest))
            /\ (json.some /\ ~IsDebug(json.v)) =>
                   outcome = Return(ResponseJson(json.v))
            /\ (StartsWith(text, "PKT") \/ StartsWith(text, "PONG")) =>
                   outcome = Return(ResponseOk(Some(text)))

\* the same with the JSON case restricted to text that begins with the
\* opening brace or bracket: this is what the code does
C4_ClassificationByFirstCharacter ==
    lpc = "classified" =>
        LET text == from_utf8_lossy(frame)
            rest == Trim(Tail(text))
            json == serde_json_from_str(text)
        IN  /\ (StartsWith(text, "OK") /\ rest = <<>>) =>
                   outcome = Return(ResponseOk(None))
            /\ (StartsWith(text, "OK") /\ rest # <<>>) =>
                   outcome = Return(ResponseOk(Some(rest)))
            /\ StartsWith(text, "ERR") =>
                   outcome = Return(ResponseError(rest))
            /\ (json.some /\ ~IsDebug(json.v)
                  /\ (StartsWith(text, "{") \/ StartsWith(text, "["))) =>
                   outcome = Return(ResponseJson(json.v))
            /\ (StartsWith(text, "PKT") \/ StartsWith(text, "PONG")) =>
                   outcome = Return(ResponseOk(Some(text)))

(***************************************************************************)
(* Transport and clock.                                                    *)
(* The byte stream is a sequence of tokens: a body (the COBS encoding of   *)
(* one frame's text: non-zero bytes, never split here) or a delimiter (one *)
(* zero byte). Nothing looks into a body before cobs_decode does, so which *)
(* text a body carries is settled when it is decoded. Each body remembers  *)
(* when the port received it relative to the current command: "buffered"   *)
(* (it sat in read_buf when command() was called), "pending" (received     *)
(* before the command's frame was written), "fresh" (received after it).   *)
(***************************************************************************)
Body(origin) == [k |-> "body", origin |-> origin]
Delim == [k |-> "delim", origin |-> "none"]

Retag(tokens, origin) ==
    [j \in 1..Len(tokens) |->
        IF tokens[j].k = "body" THEN Body(origin) ELSE tokens[j]]

\* const CMD_TIMEOUT: Duration = Duration::from_secs(5), in seconds
CMD_TIMEOUT == 5
\* const MAX_SKIP_FRAMES: usize = 50
MAX_SKIP_FRAMES == 50
\* clear(): max_drain_time = 500 ms, in units of 100 ms
MAX_DRAIN_TIME == 5
\* read_cobs_frame / read_line: tmp = [0u8; 256]
READ_CHUNK == 256
\* clear(): buf = [0u8; 1024]
DRAIN_CHUNK == 1024

\* the observer of the time since the write stops counting past the deadline
SinceWriteCap == CMD_TIMEOUT + 1

\* read_buf.iter().position(|&b| b == 0), 1-based; 0 when there is none
DelimPos(buf) ==
    IF \E j \in 1..Len(buf) : buf[j].k = "delim"
    THEN CHOOSE j \in 1..Len(buf) :
            /\ buf[j].k = "delim"
            /\ \A i \in 1..(j - 1) : buf[i].k # "delim"
    ELSE 0

\* when the port received the bytes of a segment
SegmentOrigin(seg) ==
    IF \E j \in 1..Len(seg) : seg[j].origin = "buffered" THEN "buffered"
    ELSE IF \E j \in 1..Len(seg) : seg[j].origin = "pending" THEN "pending"
    ELSE IF \E j \in 1..Len(seg) : seg[j].origin = "fresh" THEN "fresh"
    ELSE "none"

\* a clear() that leaves the read buffer as it was
ReadBufKept(buf) == buf

\* clear(): self.read_buf.clear()
ReadBufCleared(buf) == <<>>

\* a budget test that lets one frame too many through
SkipLimitOffByOne(n) == n > MAX_SKIP_FRAMES

\* `if skip_count >= MAX_SKIP_FRAMES`
SkipLimitReached(n) == n >= MAX_SKIP_FRAMES

\* tokio::time::timeout(CMD_TIMEOUT, ...) has elapsed
TimedOut(elapsed) == elapsed >= CMD_TIMEOUT

\* a timeout reported as if the device had answered ERR
TimeoutAsDeviceError ==
    [kind |-> "response", resp |-> ResponseError(<<"timeout">>)]

\* bail!("Command timeout")
TimeoutResult == [kind |-> "timeout", resp |-> NoResponse]

\* bail!("Too many unrecognized frames - device may be in a crash loop")
TooManyResult == [kind |-> "toomany", resp |-> NoResponse]

\* an io::Error or "EOF on serial port" passed up by `?`
TransportResult == [kind |-> "transport", resp |-> NoResponse]

\* a serde_json::Error passed up by `?` (protocol.rs:240)
JsonErrorResult == [kind |-> "json", resp |-> NoResponse]

ResponseResult(r) == [kind |-> "response", resp |-> r]

(***************************************************************************)
(* The device: what it may put on the line, and the bounds of a run        *)
(***************************************************************************)
DeviceFrames ==
    { <<"OK">>, <<"ERR", " ", "x">>, <<"{", "KV", "}">>, <<"{", "DBG", "}">>,
      <<"x">>, <<"{", "x">> }

\* cobs_decode of the bytes before the delimiter: the texts the bodies
\* may carry, one after the other (cobs_decode(cobs_encode(t)) = t), and
\* the empty text for a delimiter with nothing in front
RECURSIVE SegmentTexts(_)
SegmentTexts(seg) ==
    IF seg = <<>> THEN {<<>>}
    ELSE {h \o t : h \in (IF Head(seg).k = "body" THEN DeviceFrames ELSE {<<>>}),
                    t \in SegmentTexts(Tail(seg))}

MaxRx == 2          \* tokens received by the host and not yet consumed
MaxQueue == 1       \* messages waiting in the TUI's command channel

Modes == {"oneshot", "tui"}

\* a caller that does not wait for the previous command() to return
EngineFreeAlways == TRUE

\* command(&mut self) is awaited by its caller: the next call starts only
\* after the previous one returned
EngineFree == pc = "idle"

\* the two kinds of frame the budget is for: a JSON object tagged debug, and
\* a frame of none of the known shapes (no OK, ERR, PKT or PONG keyword and
\* no opening brace or bracket in front)
IsDebugText(text) ==
    /\ serde_json_from_str(text).some
    /\ serde_json_from_str(text).v = <<"{", "DBG", "}">>

IsUnrecognizedText(text) ==
    /\ ~IsDebugText(text)
    /\ \A a \in {"OK", "ERR", "PKT", "PONG", "{", "["} : ~StartsWith(text, a)

(***************************************************************************)
(* Protocol::command, protocol.rs:183-255, over SerialPort, serial.rs      *)
(***************************************************************************)
\* what is left of the engine's state when it is handed on
Begin ==
    /\ pc' = "clear"
    /\ read_buf' = ReadBufCleared(Retag(read_buf, "buffered"))
    /\ rx' = Retag(rx, "pending")
    /\ drainElapsed' = 0
    /\ result' = NoResult
    /\ g' = [NoObservation EXCEPT !.hadBuffered = (read_buf # <<>>)]
    /\ skip_count' = 0
    /\ readElapsed' = 0
    /\ sinceWrite' = 0
    /\ UNCHANGED <<devMid, inflight, mode>>
    /\ UNCHANGED notEngineVars

\* a one-shot CLI command calls command(): clear() empties the read buffer
\* and starts to drain the port. What the port holds by now was received
\* before the command.
StartCommand ==
    /\ mode = "oneshot"
    /\ EngineFree
    /\ Begin
    /\ UNCHANGED cmdq

\* the TUI's device task: select! takes the rx_cmd.recv() branch and awaits
\* send_broadcast(&msg), which calls command()
TaskRecvCommand ==
    /\ mode = "tui"
    /\ EngineFree
    /\ cmdq > 0
    /\ cmdq' = cmdq - 1
    /\ Begin

\* the TUI's device task: select! takes the read_event() branch.
\* read_line_timeout(100 ms) moves what the port holds into read_buf and
\* takes a line out of it if the bytes hold a newline (k tokens here).
TaskReadEvent ==
    /\ mode = "tui"
    /\ pc = "idle"
    /\ LET n   == Min(Len(rx), READ_CHUNK)
           buf == Retag(read_buf \o SubSeq(rx, 1, n), "buffered")
       IN  /\ rx' = SubSeq(rx, n + 1, Len(rx))
           /\ \E k \in 0..Len(buf) : read_buf' = SubSeq(buf, k + 1, Len(buf))
    /\ UNCHANGED <<pc, skip_count, result, drainElapsed, readElapsed, devMid,
                   inflight, sinceWrite, g, mode, cmdq>>
    /\ UNCHANGED notEngineVars

\* the TUI's device task: read_event() returns Err, the loop breaks
TaskReadEventFail ==
    /\ mode = "tui"
    /\ pc = "idle"
    /\ pc' = "stopped"
    /\ UNCHANGED <<rx, read_buf, skip_count, result, drainElapsed, readElapsed,
                   devMid, inflight, sinceWrite, g, mode, cmdq>>
    /\ UNCHANGED notEngineVars

\* the TUI's input loop: Enter sends the typed message down tx_cmd
UiSubmit ==
    /\ mode = "tui"
    /\ cmdq < MaxQueue
    /\ cmdq' = cmdq + 1
    /\ UNCHANGED <<pc, rx, read_buf, skip_count, result, drainElapsed,
                   readElapsed, devMid, inflight, sinceWrite, g, mode>>
    /\ UNCHANGED notEngineVars

\* clear(): read_timeout(100 ms) returns Some(n), n > 0: keep draining
ClearRead ==
    /\ pc = "clear"
    /\ drainElapsed < MAX_DRAIN_TIME
    /\ rx # <<>>
    /\ rx' = SubSeq(rx, Min(Len(rx), DRAIN_CHUNK) + 1, Len(rx))
    /\ UNCHANGED <<pc, read_buf, skip_count, result, drainElapsed,
                   readElapsed, devMid, inflight, sinceWrite, g, mode, cmdq>>
    /\ UNCHANGED notEngineVars

\* clear(): read_timeout(100 ms) returns Err (the port failed) or Some(0)
\* (end of stream): `_ => break`, and clear() returns Ok(())
ClearReadFails ==
    /\ pc = "clear"
    /\ drainElapsed < MAX_DRAIN_TIME
    /\ pc' = "write"
    /\ g' = [g EXCEPT !.clearFailed = TRUE]
    /\ UNCHANGED <<rx, read_buf, skip_count, result, drainElapsed,
                   readElapsed, devMid, inflight, sinceWrite, mode, cmdq>>
    /\ UNCHANGED notEngineVars

\* clear(): read_timeout(100 ms) returns None (nothing came in 100 ms):
\* break, and clear() returns Ok(())
ClearBreak ==
    /\ pc = "clear"
    /\ drainElapsed < MAX_DRAIN_TIME
    /\ pc' = "write"
    /\ UNCHANGED <<rx, read_buf, skip_count, result, drainElapsed,
                   readElapsed, devMid, inflight, sinceWrite, g, mode, cmdq>>
    /\ UNCHANGED notEngineVars

\* clear(): start.elapsed() >= max_drain_time ends the loop
ClearExpire ==
    /\ pc = "clear"
    /\ drainElapsed >= MAX_DRAIN_TIME
    /\ pc' = "write"
    /\ UNCHANGED <<rx, read_buf, skip_count, result, drainElapsed,
                   readElapsed, devMid, inflight, sinceWrite, g, mode, cmdq>>
    /\ UNCHANGED notEngineVars

\* 100 ms pass while clear() drains
ClearTick ==
    /\ pc = "clear"
    /\ drainElapsed < MAX_DRAIN_TIME
    /\ drainElapsed' = drainElapsed + 1
    /\ UNCHANGED <<pc, rx, read_buf, skip_count, result,
                   readElapsed, devMid, inflight, sinceWrite, g, mode, cmdq>>
    /\ UNCHANGED notEngineVars

\* write_cobs_frame(cmd) succeeds; read_response starts with skip_count = 0
WriteFrame ==
    /\ pc = "write"
    /\ pc' = "read"
    /\ inflight' = inflight + 1
    /\ skip_count' = 0
    /\ readElapsed' = 0
    /\ sinceWrite' = 0
    /\ drainElapsed' = 0
    /\ UNCHANGED <<rx, read_buf, result, devMid, g, mode, cmdq>>
    /\ UNCHANGED notEngineVars

\* write_cobs_frame(cmd) fails: command() returns the error
WriteFail ==
    /\ pc = "write"
    /\ pc' = "done"
    /\ result' = TransportResult
    /\ drainElapsed' = 0
    /\ UNCHANGED <<rx, read_buf, skip_count, readElapsed,
                   devMid, inflight, sinceWrite, g, mode, cmdq>>
    /\ UNCHANGED notEngineVars

\* read_cobs_frame finds a zero byte in read_buf: the frame before it is
\* decoded and read_response's loop body runs on its text
ReadFrame ==
    /\ pc = "read"
    /\ DelimPos(read_buf) > 0
    /\ \E frame_data \in SegmentTexts(SubSeq(read_buf, 1, DelimPos(read_buf) - 1)) :
       LET pos  == DelimPos(read_buf)
           text == from_utf8_lossy(frame_data)
           o    == Classify(text)
       IN  /\ read_buf' = SubSeq(read_buf, pos + 1, Len(read_buf))
           /\ g' = [g EXCEPT
                      !.expired = o.act # "skip" /\ TimedOut(readElapsed),
                      !.last = IF o.act = "skip" THEN <<>> ELSE text,
                      !.lastOrigin = IF o.act = "skip" THEN "none"
                                     ELSE SegmentOrigin(SubSeq(read_buf, 1, pos)),
                      !.sawDebug = @ \/ IsDebugText(text),
                      !.sawUnrec = @ \/ IsUnrecognizedText(text),
                      !.nSkip = @ + (IF IsDebugText(text) \/ IsUnrecognizedText(text)
                                     THEN 1 ELSE 0)]
           /\ IF o.act = "skip"
              THEN /\ skip_count' = skip_count + 1
                   /\ IF SkipLimitReached(skip_count + 1)
                      THEN /\ pc' = "done"
                           /\ result' = TooManyResult
                           /\ inflight' = inflight - 1
                           /\ readElapsed' = 0
                           /\ sinceWrite' = 0
                      ELSE \* the next read_cobs_frame_timeout(CMD_TIMEOUT)
                           /\ readElapsed' = 0
                           /\ UNCHANGED <<pc, result, inflight, sinceWrite>>
              ELSE /\ pc' = "done"
                   /\ result' = IF o.act = "return"
                                THEN ResponseResult(o.resp)
                                ELSE JsonErrorResult
                   /\ inflight' = inflight - 1
                   /\ readElapsed' = 0
                   /\ sinceWrite' = 0
                   /\ UNCHANGED skip_count
    /\ UNCHANGED <<rx, drainElapsed, devMid, mode, cmdq>>
    /\ UNCHANGED notEngineVars

\* read_cobs_frame: no zero byte buffered, port.read(&mut tmp) returns n > 0
ReadChunk ==
    /\ pc = "read"
    /\ DelimPos(read_buf) = 0
    /\ rx # <<>>
    /\ LET n == Min(Len(rx), READ_CHUNK)
       IN  /\ read_buf' = read_buf \o SubSeq(rx, 1, n)
           /\ rx' = SubSeq(rx, n + 1, Len(rx))
    /\ g' = [g EXCEPT !.recv = TRUE]
    /\ UNCHANGED <<pc, skip_count, result, drainElapsed, readElapsed,
                   devMid, inflight, sinceWrite, mode, cmdq>>
    /\ UNCHANGED notEngineVars

\* read_cobs_frame: port.read fails or returns 0 ("EOF on serial port")
ReadError ==
    /\ pc = "read"
    /\ DelimPos(read_buf) = 0
    /\ pc' = "done"
    /\ result' = TransportResult
    /\ inflight' = inflight - 1
    /\ g' = [g EXCEPT !.expired = TimedOut(readElapsed)]
    /\ readElapsed' = 0
    /\ sinceWrite' = 0
    /\ UNCHANGED <<rx, read_buf, skip_count, drainElapsed, devMid, mode, cmdq>>
    /\ UNCHANGED notEngineVars

\* read_cobs_frame_timeout: CMD_TIMEOUT elapsed with the read still pending
ReadTimeout ==
    /\ pc = "read"
    /\ DelimPos(read_buf) = 0
    /\ rx = <<>>
    /\ TimedOut(readElapsed)
    /\ pc' = "done"
    /\ result' = TimeoutResult
    /\ inflight' = inflight - 1
    /\ g' = [g EXCEPT !.expired = TimedOut(readElapsed)]
    /\ readElapsed' = 0
    /\ sinceWrite' = 0
    /\ UNCHANGED <<rx, read_buf, skip_count, drainElapsed, devMid, mode, cmdq>>
    /\ UNCHANGED notEngineVars

\* one second passes while read_response waits for the port
Tick ==
    /\ pc = "read"
    /\ DelimPos(read_buf) = 0
    /\ rx = <<>>
    /\ ~TimedOut(readElapsed)
    /\ readElapsed' = readElapsed + 1
    /\ sinceWrite' = Min(sinceWrite + 1, SinceWriteCap)
    /\ UNCHANGED <<pc, rx, read_buf, skip_count, result, drainElapsed,
                   devMid, inflight, g, mode, cmdq>>
    /\ UNCHANGED notEngineVars

\* command() has returned to its caller: read_response's locals are gone
CommandReturns ==
    /\ pc = "done"
    /\ pc' = "idle"
    /\ read_buf' = Retag(read_buf, "buffered")
    /\ rx' = Retag(rx, "pending")
    /\ result' = NoResult
    /\ g' = NoObservation
    /\ skip_count' = 0
    /\ drainElapsed' = 0
    /\ readElapsed' = 0
    /\ sinceWrite' = 0
    /\ UNCHANGED <<devMid, inflight, mode, cmdq>>
    /\ UNCHANGED notEngineVars

\* the device sends the body of a frame ... (pc = "done" is the instant
\* command() returns: what arrives then arrives in "idle")
DeviceEmitBody ==
    /\ ~devMid
    /\ pc # "done"
    /\ Len(read_buf) + Len(rx) < MaxRx
    /\ rx' = Append(rx, Body(IF pc = "read" THEN "fresh" ELSE "pending"))
    /\ devMid' = TRUE
    /\ UNCHANGED <<pc, read_buf, skip_count, result, drainElapsed,
                   readElapsed, inflight, sinceWrite, g, mode, cmdq>>
    /\ UNCHANGED notEngineVars

\* ... and the zero byte that ends it
DeviceEmitDelim ==
    /\ devMid
    /\ pc # "done"
    /\ Len(read_buf) + Len(rx) < MaxRx
    /\ rx' = Append(rx, Delim)
    /\ devMid' = FALSE
    /\ UNCHANGED <<pc, read_buf, skip_count, result, drainElapsed,
                   readElapsed, inflight, sinceWrite, g, mode, cmdq>>
    /\ UNCHANGED notEngineVars

Init ==
    /\ EngineStart
    /\ mode \in Modes
    /\ CodecIdle
    /\ ClassifyIdle
    /\ HelperIdle
    /\ RecvIdle
    /\ SendIdle
    /\ TraceIdle
    /\ EventIdle
    /\ TuiIdle
    /\ SessIdle
    /\ SerialIdle
    /\ LogIdle
    /\ NeighborIdle
    /\ InputIdle
    /\ AdvertIdle

Next ==
    \/ StartCommand
    \/ TaskRecvCommand
    \/ TaskReadEvent
    \/ TaskReadEventFail
    \/ UiSubmit
    \/ ClearRead
    \/ ClearBreak
    \/ ClearReadFails
    \/ ClearExpire
    \/ ClearTick
    \/ WriteFrame
    \/ WriteFail
    \/ ReadFrame
    \/ ReadChunk
    \/ ReadError
    \/ ReadTimeout
    \/ Tick
    \/ CommandReturns
    \/ DeviceEmitBody
    \/ DeviceEmitDelim

Spec == Init /\ [][Next]_vars

(***************************************************************************)
(* Properties of Protocol::command                                         *)
(***************************************************************************)
\* C5: debug frames and unrecognized frames are counted against one shared
\* budget of 50 per request. The counter is the number of frames of either
\* kind consumed so far; the command still reads only while it is below 50;
\* an OK frame ends the command with Ok only after fewer than 50 of them,
\* and the fiftieth ends it with the too-many-frames failure.
C5_SharedSkipBudget ==
    /\ pc \in {"read", "done"} => skip_count = g.nSkip
    /\ pc = "read" => g.nSkip < MAX_SKIP_FRAMES
    /\ (pc = "done" /\ StartsWith(g.last, "OK")) =>
           /\ g.nSkip < MAX_SKIP_FRAMES
           /\ result.kind = "response"
           /\ result.resp.tag = "Ok"
    /\ (pc = "done" /\ g.nSkip >= MAX_SKIP_FRAMES) => result = TooManyResult
    /\ result = TooManyResult => g.nSkip = MAX_SKIP_FRAMES

\* Ok after 49 skipped frames of both kinds
C5_Witness ==
    /\ pc = "done"
    /\ result.kind = "response"
    /\ result.resp.tag = "Ok"
    /\ g.nSkip = MAX_SKIP_FRAMES - 1
    /\ g.sawDebug
    /\ g.sawUnrec

\* C6: a command ends within one deadline measured from the write of its
\* frame, however many frames it skips: it is never still waiting when more
\* than CMD_TIMEOUT has passed since the write.
C6_OneDeadline ==
    pc = "read" => sinceWrite <= CMD_TIMEOUT

\* C7: a command that receives no byte (and whose port does not fail) ends
\* with the timeout failure once CMD_TIMEOUT has passed; a timeout carries
\* no Response; Response::Error is returned exactly for a frame that starts
\* with ERR.
C7_TimeoutIsNotDeviceError ==
    /\ (pc = "done" /\ ~g.recv /\ result # TransportResult) =>
           (result = TimeoutResult /\ g.expired)
    /\ result.kind = "timeout" => (result.resp = NoResponse /\ g.expired)
    /\ (pc = "done" /\ StartsWith(g.last, "ERR")) =>
           (result.kind = "response" /\ result.resp.tag = "Error")
    /\ (result.kind = "response" /\ result.resp.tag = "Error") =>
           StartsWith(g.last, "ERR")

\* a command that timed out without a byte from the device
C7_Witness ==
    /\ pc = "done"
    /\ ~g.recv
    /\ result = TimeoutResult

\* C8: the frame a command ends with, as its Response or as its failure, is
\* never a JSON object tagged debug; every debug frame consumed has been
\* counted as skipped.
C8_DebugNeverReturned ==
    /\ ~IsDebugText(g.last)
    /\ g.sawDebug => (skip_count >= 1 /\ skip_count = g.nSkip)

\* a command that consumed a debug frame and returned a later frame
C8_Witness ==
    /\ pc = "done"
    /\ g.sawDebug
    /\ skip_count >= 1
    /\ result.kind = "response"

\* C9: at most one command frame has been written whose command() has not
\* returned, in the one-shot path and in the TUI's device task.
C9_OneInFlight ==
    inflight <= 1

\* a TUI message waits in the channel while a command is in flight
C9_Witness ==
    /\ mode = "tui"
    /\ pc = "read"
    /\ inflight = 1
    /\ cmdq > 0

\* C10: no byte received before the command's frame was written is part of
\* the frame the command returns as its Response.
C10_NoStaleByte ==
    (pc = "done" /\ result.kind = "response") => g.lastOrigin = "fresh"

\* C10, as the code has it: no byte that sat in read_buf when command() was
\* called is part of the frame the command returns as its Response (bytes
\* the port received later, before the write, that clear() did not read can
\* be).
C10_NoBufferedByte ==
    (pc = "done" /\ result.kind = "response") => g.lastOrigin # "buffered"

\* a command called with bytes in read_buf returned a Response
C10_Witness ==
    /\ pc = "done"
    /\ g.hadBuffered
    /\ result.kind = "response"
    /\ g.lastOrigin \in {"pending", "fresh"}

(***************************************************************************)
(* Typed helpers, protocol.rs:258-331, 397-412, 476-559 and                *)
(* device.rs:24-109, 143-146, 193-203                                      *)
(***************************************************************************)
\* Ok(value)
HelperOk == [ok |-> TRUE, err |-> "none", msg |-> <<>>]
\* Err raised by the helper or passed up by `?`
HelperErr(why, m) == [ok |-> FALSE, err |-> why, msg |-> m]

\* match arms `Response::Json(json) => serde_json::from_value(json)?`
JsonHelpers == {"get_info", "get_config", "get_neighbors"}
\* match arm `Response::Json(json) =>` that reads the fields it finds
LenientJsonHelpers == {"get_telemetry"}
\* match arm `Response::Ok(_) => Ok(())`
OkHelpers == {"set_name", "set_frequency", "set_power", "send_broadcast",
              "reboot", "enter_monitor_mode"}
\* `self.protocol.command(&cmd).await?; Ok(())`
UncheckedHelpers == {"set_preset", "set_bandwidth", "set_spreading_factor",
                     "send_advert_local", "send_advert_flood"}
Helpers == JsonHelpers \cup LenientJsonHelpers \cup OkHelpers \cup UncheckedHelpers

\* what command() may hand to a helper
CommandResults ==
    { ResponseResult(ResponseOk(None)),
      ResponseResult(ResponseOk(Some(<<"x">>))),
      ResponseResult(ResponseError(<<"x">>)),
      ResponseResult(ResponseError(<<>>)),
      ResponseResult(ResponseJson(<<"{", "KV", "}">>)),
      ResponseResult(ResponseJson(<<"[", "]">>)),
      TimeoutResult, TooManyResult, TransportResult, JsonErrorResult }

\* the value an operation gives back for what its command() call returned
HelperResult(h, r, f) ==
    IF r.kind # "response" THEN HelperErr(r.kind, <<>>)         \* command(..).await?
    ELSE IF h \in UncheckedHelpers THEN HelperOk                \* Ok(())
    ELSE IF r.resp.tag = "Error"
    THEN HelperErr("device", r.resp.msg.v)                      \* bail!("Device error: {}", e)
    ELSE IF h \in JsonHelpers
    THEN IF r.resp.tag = "Json"
         THEN IF f THEN HelperOk ELSE HelperErr("deserialize", <<>>)
         ELSE HelperErr("unexpected", <<>>)
    ELSE IF h \in LenientJsonHelpers
    THEN IF r.resp.tag = "Json" THEN HelperOk ELSE HelperErr("unexpected", <<>>)
    ELSE IF r.resp.tag = "Ok" THEN HelperOk ELSE HelperErr("unexpected", <<>>)

HelperInit ==
    /\ hpc = "called"
    /\ helper \in Helpers
    /\ reply \in CommandResults
    /\ fits \in BOOLEAN
    /\ hres = NoHelperResult
    /\ CodecIdle
    /\ ClassifyIdle
    /\ EngineIdle
    /\ RecvIdle
    /\ SendIdle
    /\ TraceIdle
    /\ EventIdle
    /\ TuiIdle
    /\ SessIdle
    /\ SerialIdle
    /\ LogIdle
    /\ NeighborIdle
    /\ InputIdle
    /\ AdvertIdle

\* the operation returns
HelperReturns ==
    /\ hpc = "called"
    /\ hpc' = "returned"
    /\ hres' = HelperResult(helper, reply, fits)
    /\ UNCHANGED <<helper, reply, fits>>
    /\ UNCHANGED notHelperVars

HelperNext == HelperReturns

SpecHelper == HelperInit /\ [][HelperNext]_vars

\* C11: no operation that sends a command reports success when the device
\* replied ERR <message>: it fails, and the failure carries the message.
C11_ErrNeverSwallowed ==
    (hpc = "returned" /\ reply.kind = "response" /\ reply.resp.tag = "Error") =>
        (~hres.ok /\ hres.err = "device" /\ hres.msg = reply.resp.msg.v)

\* C12: get_info, get_config, get_neighbors and get_telemetry succeed only
\* on a Json reply that matches the record; set_name, set_frequency,
\* set_power, send_broadcast, reboot and enter_monitor_mode succeed only on
\* an Ok reply.
C12_HelperRequiresVariant ==
    (hpc = "returned" /\ hres.ok) =>
        /\ helper \in JsonHelpers \cup LenientJsonHelpers =>
               (reply.kind = "response" /\ reply.resp.tag = "Json" /\ fits)
        /\ helper \in OkHelpers =>
               (reply.kind = "response" /\ reply.resp.tag = "Ok")

\* the same with get_telemetry required to see a Json reply, whatever is in it
C12_HelperRequiresVariantLenientTelemetry ==
    (hpc = "returned" /\ hres.ok) =>
        /\ helper \in JsonHelpers =>
               (reply.kind = "response" /\ reply.resp.tag = "Json" /\ fits)
        /\ helper \in LenientJsonHelpers =>
               (reply.kind = "response" /\ reply.resp.tag = "Json")
        /\ helper \in OkHelpers =>
               (reply.kind = "response" /\ reply.resp.tag = "Ok")

(***************************************************************************)
(* Protocol::recv_packet, protocol.rs:562-588, over SerialPort::read_line  *)
(* and read_timeout, serial.rs:130-174.                                    *)
(* The stream is a sequence of bytes; "PKT" and the decimal length of the   *)
(* header line count as one byte each.                                     *)
(***************************************************************************)
MaxPayload == 3     \* longest payload
MaxTrail == 2       \* bytes the device sends after the payload

PayloadBytes == <<"p1", "p2", "p3", "p4", "p5", "p6">>
TrailBytes == <<"t1", "t2", "t3", "t4">>

\* the decimal numerals of format!("{}", n) and str::parse::<usize>
Decimal == <<"0", "1", "2", "3", "4", "5", "6", "7", "8", "9">>
ToDecimal(n) == Decimal[n + 1]
IsDecimal(str) == \E n \in 0..(Len(Decimal) - 1) : Decimal[n + 1] = str
FromDecimal(str) == CHOOSE n \in 0..(Len(Decimal) - 1) : Decimal[n + 1] = str

PacketHeader(n) == <<"PKT", " ", ToDecimal(n), "\n">>
PacketStream(n, t) ==
    PacketHeader(n) \o SubSeq(PayloadBytes, 1, n) \o SubSeq(TrailBytes, 1, t)

\* what the device may send: a packet and what follows it, a line that is
\* no packet header, a header whose length is no number
RecvStreams ==
    {PacketStream(n, t) : n \in 0..MaxPayload, t \in 0..MaxTrail}
        \cup {<<"x", "\n", "p1">>, <<"PKT", " ", "x", "\n", "p1">>}

\* line.strip_prefix("PKT").unwrap_or("0").trim().parse::<usize>()
ParseLen(line) ==
    LET len_str == SelectSeq(Tail(line), LAMBDA b : b # " ")
    IN  IF Len(len_str) = 1 /\ IsDecimal(len_str[1])
        THEN Some(FromDecimal(len_str[1]))
        ELSE None

\* the stream starts with a well-formed header
IsPacketStream(stream) ==
    /\ Len(stream) >= 4
    /\ stream[1] = "PKT"
    /\ stream[4] = "\n"
    /\ ParseLen(SubSeq(stream, 1, 3)).some

\* the len bytes that follow the header's newline
PayloadOf(stream) == SubSeq(stream, 5, 4 + ParseLen(SubSeq(stream, 1, 3)).v)

\* read_buf.iter().position(|&b| b == b'\n'), 0 when there is none
NewlinePos(bytes) ==
    IF \E j \in 1..Len(bytes) : bytes[j] = "\n"
    THEN CHOOSE j \in 1..Len(bytes) :
            /\ bytes[j] = "\n"
            /\ \A i \in 1..(j - 1) : bytes[i] # "\n"
    ELSE 0

PacketOk(bytes) == [kind |-> "packet", data |-> bytes]     \* Ok(Some(buf))
PacketNone == [kind |-> "nothing", data |-> <<>>]          \* Ok(None)
PacketErr(why) == [kind |-> why, data |-> <<>>]            \* Err(..)

RecvInit ==
    /\ kpc = "line"
    /\ sent \in RecvStreams
    /\ port_in = sent
    /\ pk_read_buf = <<>>
    /\ pkt_len = 0
    /\ pkt_buf = <<>>
    /\ kres = NoPacketResult
    /\ k_end \in {"open", "eof", "failing"}
    /\ k_zero = 0
    /\ CodecIdle
    /\ ClassifyIdle
    /\ EngineIdle
    /\ HelperIdle
    /\ SendIdle
    /\ TraceIdle
    /\ EventIdle
    /\ TuiIdle
    /\ SessIdle
    /\ SerialIdle
    /\ LogIdle
    /\ NeighborIdle
    /\ InputIdle
    /\ AdvertIdle

\* read_line: no newline buffered, port.read(&mut tmp) hands out k bytes
RecvLineChunk ==
    /\ kpc = "line"
    /\ NewlinePos(pk_read_buf) = 0
    /\ \E k \in 1..Min(Len(port_in), READ_CHUNK) :
          /\ pk_read_buf' = pk_read_buf \o SubSeq(port_in, 1, k)
          /\ port_in' = SubSeq(port_in, k + 1, Len(port_in))
    /\ UNCHANGED <<kpc, sent, pkt_len, pkt_buf, kres>>
    /\ UNCHANGED <<k_end, k_zero>>
    /\ UNCHANGED notRecvVars

\* read_line finds a newline and returns the line in front of it;
\* recv_packet parses the header (protocol.rs:570-575)
RecvLine ==
    /\ kpc = "line"
    /\ NewlinePos(pk_read_buf) > 0
    /\ LET pos  == NewlinePos(pk_read_buf)
           line == TrimEnd(SubSeq(pk_read_buf, 1, pos - 1))
           n    == ParseLen(line)
       IN  /\ pk_read_buf' = SubSeq(pk_read_buf, pos + 1, Len(pk_read_buf))
           /\ IF ~StartsWith(line, "PKT")
              THEN kpc' = "done" /\ kres' = PacketNone /\ UNCHANGED pkt_len
              ELSE IF ~n.some
              THEN kpc' = "done" /\ kres' = PacketErr("parse") /\ UNCHANGED pkt_len
              ELSE kpc' = "payload" /\ pkt_len' = n.v /\ UNCHANGED kres
    /\ UNCHANGED <<sent, port_in, pkt_buf>>
    /\ UNCHANGED <<k_end, k_zero>>
    /\ UNCHANGED notRecvVars

\* read_line_timeout: the timeout passes before the line is complete (the
\* bytes of port_in, if any, have not arrived yet)
RecvLineTimeout ==
    /\ kpc = "line"
    /\ NewlinePos(pk_read_buf) = 0
    /\ port_in # <<>> \/ k_end = "open"
    /\ kpc' = "done"
    /\ kres' = PacketNone
    /\ UNCHANGED <<sent, port_in, pk_read_buf, pkt_len, pkt_buf>>
    /\ UNCHANGED <<k_end, k_zero>>
    /\ UNCHANGED notRecvVars

\* port.read fails or returns 0 inside read_line
RecvLineError ==
    /\ kpc = "line"
    /\ NewlinePos(pk_read_buf) = 0
    /\ k_end = "failing" \/ (k_end = "eof" /\ port_in = <<>>)
    /\ kpc' = "done"
    /\ kres' = PacketErr("transport")
    /\ UNCHANGED <<sent, port_in, pk_read_buf, pkt_len, pkt_buf>>
    /\ UNCHANGED <<k_end, k_zero>>
    /\ UNCHANGED notRecvVars

\* while read < len: self.port.read_timeout(&mut buf[read..], CMD_TIMEOUT)
\* hands out k bytes of the port; read_buf is not looked at
RecvPayloadChunk ==
    /\ kpc = "payload"
    /\ Len(pkt_buf) < pkt_len
    /\ \E k \in 1..Min(Len(port_in), pkt_len - Len(pkt_buf)) :
          /\ pkt_buf' = pkt_buf \o SubSeq(port_in, 1, k)
          /\ port_in' = SubSeq(port_in, k + 1, Len(port_in))
    /\ UNCHANGED <<kpc, sent, pk_read_buf, pkt_len, kres>>
    /\ UNCHANGED <<k_end, k_zero>>
    /\ UNCHANGED notRecvVars

\* read_timeout returns None: bail!("Timeout reading packet data")
RecvPayloadTimeout ==
    /\ kpc = "payload"
    /\ Len(pkt_buf) < pkt_len
    /\ port_in # <<>> \/ k_end = "open"
    /\ kpc' = "done"
    /\ kres' = PacketErr("timeout")
    /\ UNCHANGED <<sent, port_in, pk_read_buf, pkt_len, pkt_buf>>
    /\ UNCHANGED <<k_end, k_zero>>
    /\ UNCHANGED notRecvVars

\* read_timeout returns Err: port.read failed
RecvPayloadError ==
    /\ kpc = "payload"
    /\ Len(pkt_buf) < pkt_len
    /\ k_end = "failing"
    /\ kpc' = "done"
    /\ kres' = PacketErr("transport")
    /\ UNCHANGED <<sent, port_in, pk_read_buf, pkt_len, pkt_buf>>
    /\ UNCHANGED <<k_end, k_zero>>
    /\ UNCHANGED notRecvVars

\* the port is at end of stream: self.port.read returns Ok(0) at once
\* (serial.rs:163-164 passes n on, zero included), read_timeout returns
\* Some(0), `read += n` adds nothing and the loop asks again
RecvPayloadZero ==
    /\ kpc = "payload"
    /\ Len(pkt_buf) < pkt_len
    /\ port_in = <<>>
    /\ k_end = "eof"
    /\ k_zero' = 1 - k_zero
    /\ UNCHANGED <<kpc, sent, port_in, pk_read_buf, pkt_len, pkt_buf, kres, k_end>>
    /\ UNCHANGED notRecvVars

\* read = len: Ok(Some(buf))
RecvPacketDone ==
    /\ kpc = "payload"
    /\ Len(pkt_buf) >= pkt_len
    /\ kpc' = "done"
    /\ kres' = PacketOk(pkt_buf)
    /\ UNCHANGED <<sent, port_in, pk_read_buf, pkt_len, pkt_buf>>
    /\ UNCHANGED <<k_end, k_zero>>
    /\ UNCHANGED notRecvVars

RecvNext ==
    \/ RecvLineChunk
    \/ RecvLine
    \/ RecvLineTimeout
    \/ RecvLineError
    \/ RecvPayloadChunk
    \/ RecvPayloadTimeout
    \/ RecvPayloadError
    \/ RecvPayloadZero
    \/ RecvPacketDone

SpecRecvPacket == RecvInit /\ [][RecvNext]_vars

\* the port has handed out the header and every byte of the payload
PayloadHandedOut == Len(sent) - Len(port_in) >= 4 + Len(PayloadOf(sent))

\* C13: when the stream carries 'PKT <len>' and then len raw bytes,
\* recv_packet returns exactly the len bytes that follow the header's
\* newline, however the stream is split into read chunks (header and payload
\* bytes in one chunk included), and it does not fail with a payload timeout
\* once the port has handed out the whole payload.
C13_PacketIsPayload ==
    (kpc = "done" /\ IsPacketStream(sent)) =>
        /\ kres.kind \in {"packet", "nothing", "timeout", "transport"}
        /\ kres.kind = "packet" => kres.data = PayloadOf(sent)
        /\ kres.kind = "timeout" => ~PayloadHandedOut

\* what does hold: the same for the runs in which read_line's last chunk
\* ended with the header's newline, so that read_buf kept no payload byte
C13_PacketIsPayloadWhenHeaderAlone ==
    (kpc = "done" /\ IsPacketStream(sent)
        /\ pk_read_buf = <<>>) =>
        /\ kres.kind \in {"packet", "nothing", "timeout", "transport"}
        /\ kres.kind = "packet" => kres.data = PayloadOf(sent)
        /\ kres.kind = "timeout" => ~PayloadHandedOut

\* a run of the second kind that returned a packet
C13_WitnessHeaderAlone ==
    /\ kpc = "done"
    /\ kres.kind = "packet"
    /\ Len(kres.data) = MaxPayload
    /\ pk_read_buf = <<>>

(***************************************************************************)
(* Protocol::send_packet, protocol.rs:458-473, over SerialPort::write,     *)
(* serial.rs:122-127.  "z" is the zero byte.                               *)
(***************************************************************************)
MaxPacket == 3      \* longest packet sent

SendPackets == SeqsUpTo({"z", "p1"}, MaxPacket)

\* format!("PKT {}\n", packet.len())
SendHeader(pkt) == PacketHeader(Len(pkt))

\* a payload written with a zero terminator after it
RawBytesTerminated(pkt) == pkt \o <<"z">>

\* self.port.write(packet): the bytes as they are
RawBytes(pkt) == pkt

\* the match of protocol.rs:463-472 on what read_response returned
SendPacketResult(r) ==
    IF r.kind # "response" THEN HelperErr(r.kind, <<>>)             \* `?`
    ELSE IF r.resp.tag = "Ok" THEN HelperOk
    ELSE IF r.resp.tag = "Error" THEN HelperErr("device", r.resp.msg.v)
    ELSE HelperErr("unexpected", <<>>)

\* a response frame of an earlier exchange that nothing has read yet: none,
\* or one that read_response recognises
StaleResponses ==
    { NoResult,
      ResponseResult(ResponseOk(None)),
      ResponseResult(ResponseError(<<"x">>)) }

SendInit ==
    /\ spc = "header"
    /\ packet \in SendPackets
    /\ tx = <<>>
    /\ sreply = NoResult
    /\ sres = NoHelperResult
    /\ s_stale \in StaleResponses
    /\ s_origin = "none"
    /\ CodecIdle
    /\ ClassifyIdle
    /\ EngineIdle
    /\ HelperIdle
    /\ RecvIdle
    /\ TraceIdle
    /\ EventIdle
    /\ TuiIdle
    /\ SessIdle
    /\ SerialIdle
    /\ LogIdle
    /\ NeighborIdle
    /\ InputIdle
    /\ AdvertIdle

\* self.port.write(header.as_bytes()).await succeeds
SendWriteHeader ==
    /\ spc = "header"
    /\ tx' = tx \o SendHeader(packet)
    /\ spc' = "payload"
    /\ UNCHANGED <<packet, sreply, sres, s_stale, s_origin>>
    /\ UNCHANGED notSendVars

\* self.port.write(packet).await succeeds
SendWritePayload ==
    /\ spc = "payload"
    /\ tx' = tx \o RawBytes(packet)
    /\ spc' = "response"
    /\ UNCHANGED <<packet, sreply, sres, s_stale, s_origin>>
    /\ UNCHANGED notSendVars

\* write_all or flush fails after k bytes: `?` returns the error
SendWriteFail ==
    /\ spc \in {"header", "payload"}
    /\ LET bytes == IF spc = "header" THEN SendHeader(packet) ELSE RawBytes(packet)
       IN  \E k \in 0..Len(bytes) : tx' = tx \o SubSeq(bytes, 1, k)
    /\ spc' = "done"
    /\ sres' = HelperErr("transport", <<>>)
    /\ UNCHANGED <<packet, sreply, s_stale, s_origin>>
    /\ UNCHANGED notSendVars

\* self.read_response().await returns r, and send_packet with it.  Nothing
\* between the call and this read empties read_buf or the port (command()
\* calls clear() first, send_packet does not), and read_cobs_frame takes
\* the oldest frame first: a response frame held since before the call is
\* the one read_response returns.
SendReadResponse ==
    /\ spc = "response"
    /\ IF s_stale # NoResult
          THEN /\ sreply' = s_stale
               /\ s_origin' = "before"
          ELSE /\ \E r \in CommandResults : sreply' = r
               /\ s_origin' = "after"
    /\ sres' = SendPacketResult(sreply')
    /\ spc' = "done"
    /\ s_stale' = NoResult
    /\ UNCHANGED <<packet, tx>>
    /\ UNCHANGED notSendVars

SendNext ==
    \/ SendWriteHeader
    \/ SendWritePayload
    \/ SendWriteFail
    \/ SendReadResponse

SpecSendPacket == SendInit /\ [][SendNext]_vars

\* C14: send_packet writes 'PKT <len>' and a newline, len the decimal byte
\* count, then the packet's bytes unchanged and nothing after them, the
\* header before any payload byte; it reads a response only once all of
\* that is written, and it succeeds iff the response read is an Ok.
C14_HeaderPayloadResponse ==
    /\ [](LET all == PacketHeader(Len(packet)) \o packet
          IN  /\ Len(tx) <= Len(all)
              /\ tx = SubSeq(all, 1, Len(tx))
              /\ sreply # NoResult => tx = all
              /\ sres.ok <=> (sreply.kind = "response" /\ sreply.resp.tag = "Ok"))
    /\ [][sreply' # sreply =>
            /\ tx = PacketHeader(Len(packet)) \o packet
            /\ tx' = tx]_vars

\* a packet with a zero byte in it was sent and accepted
C14_Witness ==
    /\ spc = "done"
    /\ sres.ok
    /\ Len(packet) = MaxPacket
    /\ \E j \in 1..Len(packet) : packet[j] = "z"
    /\ tx = <<"PKT", " ", ToDecimal(MaxPacket), "\n">> \o packet

\* C35: send_packet returns Ok only on a frame the device sent after the
\* packet bytes were written, never on a frame that read_buf or the port
\* already held when send_packet was called.
C35_AckSentAfterPacket ==
    (spc = "done" /\ sres.ok) => s_origin = "after"

(***************************************************************************)
(* Protocol::trace, protocol.rs:334-394.  Time is counted in units of      *)
(* 100 ms.                                                                 *)
(***************************************************************************)
TRACE_TIMEOUT == 100        \* Duration::from_secs(10)
TRACE_LINE_TIMEOUT == 5     \* Duration::from_millis(500)
TRACE_SLEEP == 1            \* Duration::from_millis(100)

MaxTraceLines == 2          \* lines the device sends while trace polls

\* lines the device may send: the trace response, other JSON, an array
\* holding the response object, text, a cut response, an empty line
TraceLines ==
    { <<"{", "TYPE_TRACE", "}">>, <<"{", "KV", "}">>, <<"{", "}">>,
      <<"[", "{", "TYPE_TRACE", "}", "]">>, <<"x">>, <<"{", "TYPE_TRACE">>,
      <<>>, <<" ", "{", "TYPE_TRACE", "}">> }

\* a test that takes every JSON object for the response
IsTraceResponseAnyObject(value) == value # <<>> /\ value[1] = "{"

\* json.get("type").and_then(|v| v.as_str()) == Some("trace_response")
IsTraceResponse(value) ==
    /\ value # <<>>
    /\ value[1] = "{"
    /\ \E j \in 1..Len(value) : value[j] = "TYPE_TRACE"

\* the line is the one trace returns on (protocol.rs:359-361)
LineIsTraceResponse(line) ==
    LET json == serde_json_from_str(line)
    IN  json.some /\ IsTraceResponse(json.v)

\* start.elapsed() > timeout
TraceExpired(t) == t > TRACE_TIMEOUT

TraceInit ==
    /\ tpc = "command"
    /\ treply = NoResult
    /\ trace_elapsed = 0
    /\ waited = 0
    /\ tline = None
    /\ nlines = 0
    /\ polled = FALSE
    /\ tres = NoHelperResult
    /\ CodecIdle
    /\ ClassifyIdle
    /\ EngineIdle
    /\ HelperIdle
    /\ RecvIdle
    /\ SendIdle
    /\ EventIdle
    /\ TuiIdle
    /\ SessIdle
    /\ SerialIdle
    /\ LogIdle
    /\ NeighborIdle
    /\ InputIdle
    /\ AdvertIdle

\* self.command(&cmd).await? and the match on it (protocol.rs:338-344)
TraceCommandReply ==
    /\ tpc = "command"
    /\ \E r \in CommandResults :
          /\ treply' = r
          /\ IF r.kind # "response"
             THEN tpc' = "done" /\ tres' = HelperErr(r.kind, <<>>)
             ELSE IF r.resp.tag = "Json"
             THEN tpc' = "check" /\ UNCHANGED tres
             ELSE IF r.resp.tag = "Error"
             THEN tpc' = "done" /\ tres' = HelperErr("device", r.resp.msg.v)
             ELSE tpc' = "done" /\ tres' = HelperErr("unexpected", <<>>)
    /\ UNCHANGED <<trace_elapsed, waited, tline, nlines, polled>>
    /\ UNCHANGED notTraceVars

\* the top of the loop: bail!("Trace timeout ..") or the next read
TraceCheck ==
    /\ tpc = "check"
    /\ IF TraceExpired(trace_elapsed)
       THEN tpc' = "done" /\ tres' = HelperErr("trace_timeout", <<>>)
            /\ UNCHANGED <<waited, polled>>
       ELSE tpc' = "read" /\ waited' = 0 /\ polled' = TRUE /\ UNCHANGED tres
    /\ UNCHANGED <<treply, trace_elapsed, tline, nlines>>
    /\ UNCHANGED notTraceVars

\* read_line_timeout returns Some(line): a trace_response ends the call,
\* any other line is dropped and the loop goes on
TraceLine ==
    /\ tpc = "read"
    /\ nlines < MaxTraceLines
    /\ \E l \in TraceLines :
          /\ tline' = Some(l)
          /\ IF LineIsTraceResponse(l)
             THEN tpc' = "done" /\ tres' = HelperOk
             ELSE tpc' = "check" /\ UNCHANGED tres
    /\ nlines' = nlines + 1
    /\ UNCHANGED <<treply, trace_elapsed, waited, polled>>
    /\ UNCHANGED notTraceVars

\* 100 ms pass inside read_line_timeout
TraceReadTick ==
    /\ tpc = "read"
    /\ waited < TRACE_LINE_TIMEOUT
    /\ waited' = waited + 1
    /\ trace_elapsed' = trace_elapsed + 1
    /\ UNCHANGED <<tpc, treply, tline, nlines, polled, tres>>
    /\ UNCHANGED notTraceVars

\* read_line_timeout returns None after 500 ms
TraceReadTimeout ==
    /\ tpc = "read"
    /\ waited = TRACE_LINE_TIMEOUT
    /\ tpc' = "sleep"
    /\ UNCHANGED <<treply, trace_elapsed, waited, tline, nlines, polled, tres>>
    /\ UNCHANGED notTraceVars

\* read_line_timeout returns Err: `?`
TraceReadError ==
    /\ tpc = "read"
    /\ tpc' = "done"
    /\ tres' = HelperErr("transport", <<>>)
    /\ UNCHANGED <<treply, trace_elapsed, waited, tline, nlines, polled>>
    /\ UNCHANGED notTraceVars

\* tokio::time::sleep(Duration::from_millis(100))
TraceSleep ==
    /\ tpc = "sleep"
    /\ trace_elapsed' = trace_elapsed + TRACE_SLEEP
    /\ tpc' = "check"
    /\ UNCHANGED <<treply, waited, tline, nlines, polled, tres>>
    /\ UNCHANGED notTraceVars

TraceNext ==
    \/ TraceCommandReply
    \/ TraceCheck
    \/ TraceLine
    \/ TraceReadTick
    \/ TraceReadTimeout
    \/ TraceReadError
    \/ TraceSleep

\* time passes and the task is scheduled
SpecTrace == TraceInit /\ [][TraceNext]_vars /\ WF_vars(TraceNext)

\* the line is a JSON object whose member is "type":"trace_response",
\* whatever whitespace surrounds its parts
IsTraceResponseLine(line) ==
    SelectSeq(line, LAMBDA x : x # " ") = <<"{", "TYPE_TRACE", "}">>

\* C15: trace returns a TraceResult only after a Json reply to TRACE and a
\* later line that is JSON with type = trace_response; any other reply
\* fails without a poll; a line that is no trace_response is dropped and the
\* loop goes on; the trace-timeout failure comes only after more than
\* TRACE_TIMEOUT, and a call that gets a Json reply and no trace_response
\* ends, with the trace-timeout failure unless the transport failed.
C15_TwoPhaseTrace ==
    /\ [](tres.ok =>
            /\ treply.kind = "response" /\ treply.resp.tag = "Json"
            /\ polled
            /\ tline.some /\ IsTraceResponseLine(tline.v))
    /\ []((treply # NoResult /\ ~(treply.kind = "response" /\ treply.resp.tag = "Json"))
            => (tpc = "done" /\ ~polled /\ ~tres.ok /\ tres.err # "trace_timeout"))
    /\ [](tres.err = "trace_timeout" => TraceExpired(trace_elapsed))
    /\ []((tpc = "done" /\ polled /\ ~tres.ok) => tres.err \in {"trace_timeout", "transport"})
    /\ [][(tline' # tline /\ ~IsTraceResponseLine(tline'.v))
            => (tpc' = "check" /\ tres' = tres)]_vars
    /\ [][(tline' # tline /\ IsTraceResponseLine(tline'.v)) => tres'.ok]_vars
    /\ (tpc = "check" ~> tpc = "done")

\* a trace that dropped a line that was no trace_response and then returned
\* a result
C15_WitnessResult ==
    /\ tpc = "done"
    /\ tres.ok
    /\ nlines = MaxTraceLines
    /\ trace_elapsed > 0

\* a trace that ran into its ceiling after dropping lines
C15_WitnessTimeout ==
    /\ tpc = "done"
    /\ tres.err = "trace_timeout"
    /\ nlines = MaxTraceLines

(***************************************************************************)
(* Protocol::read_event, protocol.rs:415-455, called in a loop by          *)
(* Device::monitor, device.rs:151-191.  A line is a sequence of atoms:     *)
(* " " is the space, every other atom is a run of characters without one.  *)
(***************************************************************************)
MaxIgnored == 51    \* dropped lines counted (one more than MAX_SKIP_FRAMES)

MessageEvent(from, to, rssi, text) ==
    [NoEvent EXCEPT !.type = "Message", !.from = from, !.to = to,
                    !.rssi = rssi, !.text = text]
AdvertisementEvent(node_hash, rssi, name) ==
    [NoEvent EXCEPT !.type = "Advertisement", !.node_hash = node_hash,
                    !.rssi = rssi, !.name = name]
AckEvent(from) == [NoEvent EXCEPT !.type = "Ack", !.from = from]
ErrorEvent(message) == [NoEvent EXCEPT !.type = "Error", !.message = message]

EventSome(ev) == [kind |-> "event", ev |-> ev]              \* Ok(Some(ev))
EventFailure == [kind |-> "error", ev |-> NoEvent]          \* Err(e)

\* a read_event that turns a line it cannot decode into a failure
MalformedLineFails == EventFailure

\* the final Ok(None) of read_event (protocol.rs:454), and the one of 418
EventNothing == [kind |-> "nothing", ev |-> NoEvent]

\* the text the device puts on the line for an intent
RECURSIVE JoinFields(_)
JoinFields(fields) ==
    IF fields = <<>> THEN <<>>
    ELSE <<" ">> \o Head(fields) \o JoinFields(Tail(fields))

Render(i) ==
    <<i.kw>> \o JoinFields(i.fields)
             \o (IF i.rest.some THEN <<" ">> \o i.rest.v ELSE <<>>)

\* str::split(' ') on every space, whatever the limit
RECURSIVE SplitEvery(_, _)
SplitEvery(line, n) ==
    IF \A j \in 1..Len(line) : line[j] # " " THEN <<line>>
    ELSE LET pos == CHOOSE j \in 1..Len(line) :
                        line[j] = " " /\ \A k \in 1..(j - 1) : line[k] # " "
         IN  <<SubSeq(line, 1, pos - 1)>>
                \o SplitEvery(SubSeq(line, pos + 1, Len(line)), n - 1)

\* str::splitn(n, ' '): at most n parts, the last one the remainder
RECURSIVE splitn(_, _)
splitn(line, n) ==
    IF n <= 1 \/ \A j \in 1..Len(line) : line[j] # " " THEN <<line>>
    ELSE LET pos == CHOOSE j \in 1..Len(line) :
                        line[j] = " " /\ \A k \in 1..(j - 1) : line[k] # " "
         IN  <<SubSeq(line, 1, pos - 1)>>
                \o splitn(SubSeq(line, pos + 1, Len(line)), n - 1)

\* str::trim_start_matches("0x"): every leading "0x" goes
RECURSIVE trim_start_matches_0x(_)
trim_start_matches_0x(str) ==
    IF str # <<>> /\ Head(str) = "0x"
    THEN trim_start_matches_0x(Tail(str)) ELSE str

\* u8::from_str_radix(.., 16) on the numerals of the model; "100" is
\* out of u8's range, "zz" is no hex numeral
HexNumerals == <<"0", "1a", "ff">>
HexValues == <<0, 26, 255>>
from_str_radix_16(str) ==
    IF Len(str) = 1 /\ \E j \in 1..Len(HexNumerals) : HexNumerals[j] = str[1]
    THEN Some(HexValues[CHOOSE j \in 1..Len(HexNumerals) : HexNumerals[j] = str[1]])
    ELSE None

\* str::parse::<i16>() on the numerals of the model
I16Numerals == <<"10", "-5", "2">>
I16Values == <<10, -5, 2>>
parse_i16(str) ==
    IF Len(str) = 1 /\ \E j \in 1..Len(I16Numerals) : I16Numerals[j] = str[1]
    THEN Some(I16Values[CHOOSE j \in 1..Len(I16Numerals) : I16Numerals[j] = str[1]])
    ELSE None

unwrap_or(opt, d) == IF opt.some THEN opt.v ELSE d

\* line.starts_with("<kw> ")
StartsWithKeyword(line, kw) == Len(line) >= 2 /\ line[1] = kw /\ line[2] = " "

\* the parse of read_event, protocol.rs:421-454
ParseEvent(line) ==
    IF StartsWithKeyword(line, "MSG")
    THEN LET parts == splitn(line, 6)
         IN  IF Len(parts) >= 6
             THEN EventSome(MessageEvent(
                      parts[2],
                      IF parts[3] = <<"*">> THEN None ELSE Some(parts[3]),
                      unwrap_or(parse_i16(parts[4]), 0),
                      parts[6]))
             ELSE EventNothing
    ELSE IF StartsWithKeyword(line, "ADV")
    THEN LET parts == splitn(line, 4)
         IN  IF Len(parts) >= 3
             THEN EventSome(AdvertisementEvent(
                      unwrap_or(from_str_radix_16(trim_start_matches_0x(parts[2])), 0),
                      unwrap_or(parse_i16(parts[3]), 0),
                      IF Len(parts) >= 4 THEN Some(parts[4]) ELSE None))
             ELSE EventNothing
    ELSE IF StartsWithKeyword(line, "ACK")
    THEN EventSome(AckEvent(SubSeq(line, 3, Len(line))))
    ELSE IF StartsWithKeyword(line, "ERR")
    THEN EventSome(ErrorEvent(SubSeq(line, 3, Len(line))))
    ELSE EventNothing

\* the fields and remainders the device uses
FromFields == {<<"n1">>}
ToFields == {<<"*">>, <<"n2">>, <<"*", "*">>}
RssiFields == {<<"10">>, <<"-5">>, <<"zz">>}
TextRests == {<<"hi">>, <<"hi", " ", "yo">>, <<"*">>, <<"hi", " ", " ", "yo">>}
HashFields == {<<"0x", "1a">>, <<"1a">>, <<"ff">>, <<"0x", "0">>, <<"zz">>, <<"100">>}
NameRests == {<<"Al">>, <<"Al", " ", "B">>}

\* lines of the documented formats
MsgIntents ==
    {Intent("MSG", <<f, t, r, <<"2">>>>, Some(x)) :
        f \in FromFields, t \in ToFields, r \in RssiFields, x \in TextRests}
AdvIntents ==
    {Intent("ADV", <<h, r>>, n) :
        h \in HashFields, r \in RssiFields, n \in {None} \cup {Some(x) : x \in NameRests}}
AckIntents == {Intent("ACK", <<>>, Some(x)) : x \in {<<"n1">>, <<"n1", " ", "x">>}}
ErrIntents == {Intent("ERR", <<>>, Some(x)) : x \in {<<"busy">>, <<"no", " ", "route">>}}
WellFormedIntents == MsgIntents \cup AdvIntents \cup AckIntents \cup ErrIntents

\* lines of no documented format: a MSG or ADV line with too few fields, a
\* keyword with nothing after it, debug output, JSON, an empty line
MalformedIntents ==
    { Intent("MSG", <<<<"n1">>, <<"*">>, <<"10">>, <<"2">>>>, None),
      Intent("MSG", <<<<"n1">>, <<"*">>>>, None),
      Intent("MSG", <<>>, None),
      Intent("ADV", <<<<"1a">>>>, None),
      Intent("ADV", <<>>, None),
      Intent("ACK", <<>>, None),
      Intent("ERR", <<>>, None),
      Intent("DBG", <<>>, Some(<<"boot">>)),
      Intent("{", <<>>, Some(<<"KV", "}">>)),
      Intent("MSGS", <<<<"n1">>, <<"*">>, <<"10">>, <<"2">>>>, Some(<<"hi">>)),
      Intent("", <<>>, None) }

Intents == WellFormedIntents \cup MalformedIntents

\* the event a line of a documented format stands for, read off its parts
ExpectedEvent(i) ==
    IF i.kw = "MSG"
    THEN [type |-> "Message", from |-> i.fields[1],
          to |-> IF i.fields[2] = <<"*">> THEN None ELSE Some(i.fields[2]),
          text |-> i.rest.v]
    ELSE IF i.kw = "ADV"
    THEN [type |-> "Advertisement", name |-> i.rest,
          hex |-> LET h == i.fields[1]
                  IN  IF Head(h) = "0x" THEN Tail(h) ELSE h]
    ELSE IF i.kw = "ACK"
    THEN [type |-> "Ack", from |-> i.rest.v]
    ELSE [type |-> "Error", message |-> i.rest.v]

EventInit ==
    /\ epc = "read"
    /\ intent \in Intents
    /\ eline = None
    /\ eres = NoEventResult
    /\ nignored = 0
    /\ CodecIdle
    /\ ClassifyIdle
    /\ EngineIdle
    /\ HelperIdle
    /\ RecvIdle
    /\ SendIdle
    /\ TraceIdle
    /\ TuiIdle
    /\ SessIdle
    /\ SerialIdle
    /\ LogIdle
    /\ NeighborIdle
    /\ InputIdle
    /\ AdvertIdle

\* read_line_timeout returns Some(line): read_line has trimmed the end;
\* the parse decides what read_event returns
EventLine ==
    /\ epc = "read"
    /\ LET line == TrimEnd(Render(intent))
           r    == ParseEvent(line)
       IN  /\ eline' = Some(line)
           /\ eres' = r
           /\ nignored' = IF r.kind = "nothing"
                          THEN Min(nignored + 1, MaxIgnored) ELSE nignored
    /\ epc' = "done"
    /\ UNCHANGED intent
    /\ UNCHANGED notEventVars

\* read_line_timeout returns None after 100 ms: Ok(None)
EventTimeout ==
    /\ epc = "read"
    /\ eline' = None
    /\ eres' = EventNothing
    /\ epc' = "done"
    /\ UNCHANGED <<intent, nignored>>
    /\ UNCHANGED notEventVars

\* read_line_timeout returns Err: `?`
EventTransportError ==
    /\ epc = "read"
    /\ eline' = None
    /\ eres' = EventFailure
    /\ epc' = "done"
    /\ UNCHANGED <<intent, nignored>>
    /\ UNCHANGED notEventVars

\* Device::monitor's loop calls read_event again unless it failed
EventAgain ==
    /\ epc = "done"
    /\ eres.kind # "error"
    /\ epc' = "read"
    /\ intent' \in Intents
    /\ eline' = None
    /\ eres' = NoEventResult
    /\ UNCHANGED nignored
    /\ UNCHANGED notEventVars

EventNext ==
    \/ EventLine
    \/ EventTimeout
    \/ EventTransportError
    \/ EventAgain

SpecEvent == EventInit /\ [][EventNext]_vars

\* C16: a line 'MSG <from> <to|*> <rssi> <snr> <text...>' is decoded to a
\* Message with that from, to = None iff the field is '*', and text the whole
\* remainder, spaces included; 'ADV <hash> <rssi> [<name>]' to an
\* Advertisement whose node_hash is the hex value of the hash, a 0x prefix
\* accepted, and whose name is Some iff there is a fourth field; 'ACK <from>'
\* to an Ack; 'ERR <message>' to an Error.
C16_DecodeByKeyword ==
    (epc = "done" /\ eline.some /\ intent \in WellFormedIntents) =>
        LET want == ExpectedEvent(intent)
            ev   == eres.ev
        IN  /\ eres.kind = "event"
            /\ ev.type = want.type
            /\ want.type = "Message" =>
                  /\ ev.from = want.from
                  /\ ev.to = want.to
                  /\ (ev.to = None <=> intent.fields[2] = <<"*">>)
                  /\ ev.text = want.text
            /\ want.type = "Advertisement" =>
                  /\ from_str_radix_16(want.hex).some =>
                        ev.node_hash = from_str_radix_16(want.hex).v
                  /\ ev.name = want.name
                  /\ (ev.name.some <=> intent.rest.some)
            /\ want.type = "Ack" => ev.from = want.from
            /\ want.type = "Error" => ev.message = want.message

\* a message to one node whose text holds spaces was decoded
C16_Witness ==
    /\ epc = "done"
    /\ eres.kind = "event"
    /\ eres.ev.type = "Message"
    /\ eres.ev.to = Some(<<"n2">>)
    /\ eres.ev.text = <<"hi", " ", " ", "yo">>

\* an advertisement with a 0x hash and a name was decoded
C16_WitnessAdvertisement ==
    /\ epc = "done"
    /\ eres.kind = "event"
    /\ eres.ev.type = "Advertisement"
    /\ eres.ev.node_hash = 26
    /\ intent.fields[1] = <<"0x", "1a">>
    /\ eres.ev.name = Some(<<"Al", " ", "B">>)

\* C17: a line of no documented format makes read_event return none, never
\* a failure, however many such lines came before; read_event fails only
\* when the read of the line failed.
C17_MalformedIsNone ==
    /\ (epc = "done" /\ eline.some) => eres.kind \in {"event", "nothing"}
    /\ (epc = "done" /\ eline.some /\ intent \in MalformedIntents) =>
            eres.kind = "nothing"
    /\ (epc = "done" /\ eres.kind = "error") => eline = None

\* more malformed lines than the command path's skip budget were dropped
\* and the last one was a MSG line with too few fields
C17_Witness ==
    /\ epc = "done"
    /\ nignored = MaxIgnored
    /\ MaxIgnored > MAX_SKIP_FRAMES
    /\ eline.some
    /\ intent = Intent("MSG", <<<<"n1">>, <<"*">>>>, None)
    /\ eres = EventNothing

(***************************************************************************)
(* The TUI: run and run_ui_loop, ui.rs:119-322.  The foreground task opens *)
(* the port, calls get_info, spawns the device task with the Protocol      *)
(* moved into it, and from then on only draws, takes events from rx_event  *)
(* and puts typed messages into tx_cmd.  The device task enters monitor    *)
(* mode and loops over select! { read_event, rx_cmd.recv }.                *)
(* The device's output is counted in lines; line number j is emitted[j].   *)
(***************************************************************************)
MaxEmit == 4        \* lines the device emits
MaxCmds == 2        \* messages waiting in the command channel

Line(id, ev) == [id |-> id, ev |-> ev]

\* a channel that hands out the newest element first
ChannelPushFront(q, x) == <<x>> \o q

\* mpsc::Sender::send: the element goes to the back of the queue
ChannelPush(q, x) == Append(q, x)

\* a loop that takes a command only after the read has returned
DispatchAfterRead == "sleep"

\* tokio::select!: rx_cmd.recv() is polled while read_event() is pending
DispatchPoint == "select"

\* a foreground that writes the message to the port itself
SubmitDirect == "transport"

\* KeyCode::Enter: tx_cmd.send(msg).await (ui.rs:280)
SubmitVia == "channel"

\* a transport operation of the task is in progress
BgInProgress == bpc \in {"enter", "select", "send"}
FgInProgress == fpc = "get_info"

TuiInit ==
    /\ bpc = "unspawned"
    /\ fpc = "get_info"
    /\ emitted = <<>>
    /\ pending = <<>>
    /\ evq = <<>>
    /\ taken = <<>>
    /\ cmd_chan = 0
    /\ timer_fired = FALSE
    /\ users = {}
    /\ CodecIdle
    /\ ClassifyIdle
    /\ EngineIdle
    /\ HelperIdle
    /\ RecvIdle
    /\ SendIdle
    /\ TraceIdle
    /\ EventIdle
    /\ SessIdle
    /\ SerialIdle
    /\ LogIdle
    /\ NeighborIdle
    /\ InputIdle
    /\ AdvertIdle

\* the device emits a line: an event line or any other output
TuiDeviceEmit ==
    /\ Len(emitted) < MaxEmit
    /\ fpc # "exit"
    /\ bpc # "ended"
    /\ \E ev \in BOOLEAN :
          /\ emitted' = Append(emitted, ev)
          /\ pending' = Append(pending, Line(Len(emitted) + 1, ev))
    /\ UNCHANGED <<bpc, fpc, evq, taken, cmd_chan, timer_fired, users>>
    /\ UNCHANGED notTuiVars

\* protocol.get_info().await? fails: run returns before the spawn
TuiGetInfoFails ==
    /\ fpc = "get_info"
    /\ fpc' = "exit"
    /\ UNCHANGED <<bpc, emitted, pending, evq, taken, cmd_chan, timer_fired, users>>
    /\ UNCHANGED notTuiVars

\* get_info returned (its command swallowed what the device had sent);
\* tokio::spawn(async move { .. }) moves protocol into the device task
TuiSpawn ==
    /\ fpc = "get_info"
    /\ \E k \in 0..Len(pending) : pending' = SubSeq(pending, k + 1, Len(pending))
    /\ fpc' = "ui"
    /\ bpc' = "enter"
    /\ UNCHANGED <<emitted, evq, taken, cmd_chan, timer_fired, users>>
    /\ UNCHANGED notTuiVars

\* protocol.enter_monitor_mode() returns Ok: clear and the response read
\* have swallowed k lines
TuiEnterMonitor ==
    /\ bpc = "enter"
    /\ \E k \in 0..Len(pending) : pending' = SubSeq(pending, k + 1, Len(pending))
    /\ bpc' = "select"
    /\ timer_fired' = FALSE
    /\ users' = users \cup {"bg"}
    /\ UNCHANGED <<fpc, emitted, evq, taken, cmd_chan>>
    /\ UNCHANGED notTuiVars

\* enter_monitor_mode returns Err: the task returns
TuiEnterMonitorFails ==
    /\ bpc = "enter"
    /\ bpc' = "ended"
    /\ users' = users \cup {"bg"}
    /\ UNCHANGED <<fpc, emitted, pending, evq, taken, cmd_chan, timer_fired>>
    /\ UNCHANGED notTuiVars

\* select! takes the read_event() branch with a line: an event goes into
\* tx_event, anything else is dropped
TuiReadEvent ==
    /\ bpc = "select"
    /\ pending # <<>>
    /\ pending' = Tail(pending)
    /\ evq' = IF Head(pending).ev THEN ChannelPush(evq, Head(pending).id) ELSE evq
    /\ bpc' = "sleep"
    /\ users' = users \cup {"bg"}
    /\ UNCHANGED <<fpc, emitted, taken, cmd_chan, timer_fired>>
    /\ UNCHANGED notTuiVars

\* 100 ms pass with read_event pending and nothing to read
TuiTick ==
    /\ bpc = "select"
    /\ pending = <<>>
    /\ ~timer_fired
    /\ timer_fired' = TRUE
    /\ UNCHANGED <<bpc, fpc, emitted, pending, evq, taken, cmd_chan, users>>
    /\ UNCHANGED notTuiVars

\* select! takes the read_event() branch with Ok(None)
TuiReadTimeout ==
    /\ bpc = "select"
    /\ pending = <<>>
    /\ timer_fired
    /\ bpc' = "sleep"
    /\ users' = users \cup {"bg"}
    /\ UNCHANGED <<fpc, emitted, pending, evq, taken, cmd_chan, timer_fired>>
    /\ UNCHANGED notTuiVars

\* select! takes the read_event() branch with Err: break
TuiReadFails ==
    /\ bpc = "select"
    /\ bpc' = "ended"
    /\ users' = users \cup {"bg"}
    /\ UNCHANGED <<fpc, emitted, pending, evq, taken, cmd_chan, timer_fired>>
    /\ UNCHANGED notTuiVars

\* select! takes the rx_cmd.recv() branch: the pending read_event future is
\* dropped and protocol.send_broadcast(&msg) starts
TuiRecvCommand ==
    /\ bpc = DispatchPoint
    /\ cmd_chan > 0
    /\ cmd_chan' = cmd_chan - 1
    /\ bpc' = "send"
    /\ UNCHANGED <<fpc, emitted, pending, evq, taken, timer_fired, users>>
    /\ UNCHANGED notTuiVars

\* send_broadcast returns (Ok or Err, the loop goes on either way); its
\* clear and response read have swallowed k lines
TuiSendDone ==
    /\ bpc = "send"
    /\ \E k \in 0..Len(pending) : pending' = SubSeq(pending, k + 1, Len(pending))
    /\ bpc' = "sleep"
    /\ users' = users \cup {"bg"}
    /\ UNCHANGED <<fpc, emitted, evq, taken, cmd_chan, timer_fired>>
    /\ UNCHANGED notTuiVars

\* tokio::time::sleep(10 ms), then the next select!
TuiSleep ==
    /\ bpc = "sleep"
    /\ bpc' = "select"
    /\ timer_fired' = FALSE
    /\ UNCHANGED <<fpc, emitted, pending, evq, taken, cmd_chan, users>>
    /\ UNCHANGED notTuiVars

\* run_ui_loop: Enter with a non-empty input line
TuiSubmit ==
    /\ fpc = "ui"
    /\ cmd_chan < MaxCmds
    /\ IF SubmitVia = "channel"
       THEN cmd_chan' = cmd_chan + 1 /\ UNCHANGED users
       ELSE users' = users \cup {"fg"} /\ UNCHANGED cmd_chan
    /\ UNCHANGED <<bpc, fpc, emitted, pending, evq, taken, timer_fired>>
    /\ UNCHANGED notTuiVars

\* run_ui_loop: while let Ok(event) = rx_event.try_recv()
TuiTakeEvent ==
    /\ fpc = "ui"
    /\ evq # <<>>
    /\ taken' = Append(taken, Head(evq))
    /\ evq' = Tail(evq)
    /\ UNCHANGED <<bpc, fpc, emitted, pending, cmd_chan, timer_fired, users>>
    /\ UNCHANGED notTuiVars

TuiNext ==
    \/ TuiDeviceEmit
    \/ TuiGetInfoFails
    \/ TuiSpawn
    \/ TuiEnterMonitor
    \/ TuiEnterMonitorFails
    \/ TuiReadEvent
    \/ TuiTick
    \/ TuiReadTimeout
    \/ TuiReadFails
    \/ TuiRecvCommand
    \/ TuiSendDone
    \/ TuiSleep
    \/ TuiSubmit
    \/ TuiTakeEvent

SpecTui == TuiInit /\ [][TuiNext]_vars

\* ids of the lines in a sequence of lines
LineIds(q) == { q[i].id : i \in 1..Len(q) }

C19_DispatchWhileReadPending ==
    /\ []((bpc = "select" /\ pending = <<>> /\ cmd_chan > 0) => ENABLED TuiRecvCommand)
    /\ [][(bpc = "select" /\ pending = <<>> /\ ~timer_fired /\ cmd_chan > 0
             /\ bpc' # bpc /\ pending' = <<>>)
            => (bpc' = "send" \/ bpc' = "ended")]_vars

\* a message was dispatched from a read that had neither data nor timed out
C19_Witness ==
    /\ bpc = "send"
    /\ pending = <<>>
    /\ emitted = <<>>
    /\ ~timer_fired

\* C20: once the device task is spawned only it uses the transport, and
\* never are an operation of the foreground and one of the device task in
\* progress together.
C20_OneTransportUser ==
    /\ ~(BgInProgress /\ FgInProgress)
    /\ bpc # "unspawned" => fpc # "get_info"
    /\ users \subseteq {"bg"}

\* the device task is inside send_broadcast while the foreground has put the
\* next message into the channel and takes events
C20_Witness ==
    /\ bpc = "send"
    /\ fpc = "ui"
    /\ cmd_chan > 0
    /\ taken # <<>>
    /\ users = {"bg"}

\* C36: dispatching an outgoing message loses no monitor event: an event
\* line that the device has emitted and that leaves the port while
\* send_broadcast runs (its buffer clear, its input drain, its response
\* read) is pushed to the event channel.
C36_SendKeepsEvents ==
    [][bpc = "send" =>
          \A i \in 1..Len(pending) :
             (pending[i].ev /\ pending[i].id \notin LineIds(pending'))
                => \E j \in 1..Len(evq') : evq'[j] = pending[i].id]_vars

(***************************************************************************)
(* A session: the TUI (run and run_ui_loop, ui.rs:119-322) with its lock,  *)
(* its command channel, its quit flag and its error log, and               *)
(* Device::monitor (device.rs:151-191) with its interrupt flag.            *)
(***************************************************************************)
CMD_CHANNEL_CAP == 10   \* mpsc::channel::<String>(10)

MaxSendErrs == 2        \* "Send error" entries counted
MaxTimeouts == 2        \* timed-out reads counted

\* a JoinHandle dropped without abort(): the task runs on
AbortDetached(p) == p

\* device_task.abort() (ui.rs:215), or the runtime dropped when main returns
AbortTarget(p) == IF p = "ended" THEN p ELSE "aborted"

\* a loop that breaks when a read times out
AfterTimeoutEnds == "ended"

\* Ok(None) => {} and the sleep that follows (ui.rs:178, 198)
AfterTimeout == "sleep"

\* a loop that breaks when a send fails
AfterSendErrorEnds == "ended"

\* the `if let Err(e) = protocol.send_broadcast(..)` arm falls through to
\* the sleep (ui.rs:189-191, 198)
AfterSendError == "sleep"

\* the task is suspended in an await: a channel send or receive, a serial
\* read or write, or a timed wait
FgSuspended == sfpc \in {"key", "send_wait", "m_enter", "m_read", "m_sleep"}
BgSuspended == sbpc \in {"enter", "select", "sending", "sleep"}

\* the device task is in one of its three logging statements,
\* app_clone.lock().unwrap().add_error(..) (ui.rs:153, 180, 190): in lock()
\* or holding the guard
BgLogging == {"log_monitor", "log_read", "log_send"}

\* a guard bound to a variable that lives on to the end of the loop body
GuardKept == "bg"

\* the guard of `app_clone.lock().unwrap().add_error(..)` is a temporary
GuardDropped == "none"

\* the device task has ended or has been cancelled
BgStopped == sbpc \in {"ended", "aborted", "none"}

SessInit ==
    /\ smode \in {"tui", "monitor"}
    /\ sfpc = IF smode = "tui" THEN "draw" ELSE "m_enter"
    /\ sbpc = IF smode = "tui" THEN "enter" ELSE "none"
    /\ lock = "none"
    /\ s_chan = 0
    /\ should_quit = FALSE
    /\ send_errs = 0
    /\ read_errs = 0
    /\ mon_errs = 0
    /\ timeouts = 0
    /\ CodecIdle
    /\ ClassifyIdle
    /\ EngineIdle
    /\ HelperIdle
    /\ RecvIdle
    /\ SendIdle
    /\ TraceIdle
    /\ EventIdle
    /\ TuiIdle
    /\ SerialIdle
    /\ LogIdle
    /\ NeighborIdle
    /\ InputIdle
    /\ AdvertIdle

\* run_ui_loop: the draw block and the try_recv loop, each under the lock
\* (ui.rs:228-253)
SessDraw ==
    /\ sfpc = "draw"
    /\ lock = "none"
    /\ sfpc' = "check"
    /\ UNCHANGED <<smode, sbpc, lock, s_chan, should_quit, send_errs,
                   read_errs, mon_errs, timeouts>>
    /\ UNCHANGED notSessVars

\* terminal.draw(..)? fails: run_ui_loop returns the error
SessDrawFails ==
    /\ sfpc = "draw"
    /\ lock = "none"
    /\ sfpc' = "returned"
    /\ UNCHANGED <<smode, sbpc, lock, s_chan, should_quit, send_errs,
                   read_errs, mon_errs, timeouts>>
    /\ UNCHANGED notSessVars

\* if app.lock().unwrap().should_quit { return Ok(()) } (ui.rs:256-258)
SessCheckQuit ==
    /\ sfpc = "check"
    /\ lock = "none"
    /\ sfpc' = IF should_quit THEN "returned" ELSE "key"
    /\ UNCHANGED <<smode, sbpc, lock, s_chan, should_quit, send_errs,
                   read_errs, mon_errs, timeouts>>
    /\ UNCHANGED notSessVars

\* event::poll(50 ms) finds no key, or a key that only edits the input
SessNoKey ==
    /\ sfpc = "key"
    /\ lock = "none"
    /\ sfpc' = "draw"
    /\ UNCHANGED <<smode, sbpc, lock, s_chan, should_quit, send_errs,
                   read_errs, mon_errs, timeouts>>
    /\ UNCHANGED notSessVars

\* event::poll(..)? or event::read()? fails: run_ui_loop returns the error
SessPollFails ==
    /\ sfpc = "key"
    /\ sfpc' = "returned"
    /\ UNCHANGED <<smode, sbpc, lock, s_chan, should_quit, send_errs,
                   read_errs, mon_errs, timeouts>>
    /\ UNCHANGED notSessVars

\* Ctrl+Q or Ctrl+C: app.should_quit = true (ui.rs:266-271)
SessKeyQuit ==
    /\ sfpc = "key"
    /\ lock = "none"
    /\ should_quit' = TRUE
    /\ sfpc' = "draw"
    /\ UNCHANGED <<smode, sbpc, lock, s_chan, send_errs, read_errs, mon_errs,
                   timeouts>>
    /\ UNCHANGED notSessVars

\* Enter with input: the handler holds `app` (ui.rs:263) and awaits
\* tx_cmd.send(msg) (ui.rs:280); with room in the channel the send completes
\* and the block ends, with a full channel the task is suspended in the send
SessKeyEnter ==
    /\ sfpc = "key"
    /\ lock = "none"
    /\ IF s_chan < CMD_CHANNEL_CAP
       THEN s_chan' = s_chan + 1 /\ sfpc' = "draw" /\ UNCHANGED lock
       ELSE lock' = "fg" /\ sfpc' = "send_wait" /\ UNCHANGED s_chan
    /\ UNCHANGED <<smode, sbpc, should_quit, send_errs, read_errs, mon_errs,
                   timeouts>>
    /\ UNCHANGED notSessVars

\* the channel has room again: the send completes, the guard is dropped
SessSendResume ==
    /\ sfpc = "send_wait"
    /\ s_chan < CMD_CHANNEL_CAP
    /\ s_chan' = s_chan + 1
    /\ lock' = "none"
    /\ sfpc' = "draw"
    /\ UNCHANGED <<smode, sbpc, should_quit, send_errs, read_errs, mon_errs,
                   timeouts>>
    /\ UNCHANGED notSessVars

\* run: the terminal is restored and device_task.abort() is called
\* (ui.rs:205-215). A logging statement is no suspension point: an abort
\* that comes during it acts at the await that follows, as if it had come
\* after the statement
SessCleanup ==
    /\ sfpc = "returned"
    /\ sbpc \notin BgLogging
    /\ sbpc' = AbortTarget(sbpc)
    /\ sfpc' = "exit"
    /\ UNCHANGED <<smode, lock, s_chan, should_quit, send_errs, read_errs,
                   mon_errs, timeouts>>
    /\ UNCHANGED notSessVars

\* run: disable_raw_mode()?, execute!(..)? or show_cursor()? fails and run
\* returns before abort(); tx_cmd is dropped with run's frame
SessCleanupFails ==
    /\ sfpc = "returned"
    /\ sfpc' = "failed"
    /\ UNCHANGED <<smode, sbpc, lock, s_chan, should_quit, send_errs,
                   read_errs, mon_errs, timeouts>>
    /\ UNCHANGED notSessVars

\* main returns the error, the runtime is dropped and with it the task
SessShutdown ==
    /\ sfpc = "failed"
    /\ sbpc \notin BgLogging
    /\ sbpc' = AbortTarget(sbpc)
    /\ sfpc' = "exit"
    /\ UNCHANGED <<smode, lock, s_chan, should_quit, send_errs, read_errs,
                   mon_errs, timeouts>>
    /\ UNCHANGED notSessVars

\* protocol.enter_monitor_mode() returns Ok (ui.rs:152)
SessEnterMonitor ==
    /\ sbpc = "enter"
    /\ sbpc' = "select"
    /\ UNCHANGED <<smode, sfpc, lock, s_chan, should_quit, send_errs,
                   read_errs, mon_errs, timeouts>>
    /\ UNCHANGED notSessVars

\* enter_monitor_mode returns Err: the task goes to log "Monitor error"
\* (ui.rs:152-153) and is in app_clone.lock() until it has the lock
SessEnterMonitorFails ==
    /\ sbpc = "enter"
    /\ sbpc' = "log_monitor"
    /\ UNCHANGED <<smode, sfpc, lock, s_chan, should_quit, send_errs,
                   read_errs, mon_errs, timeouts>>
    /\ UNCHANGED notSessVars

\* select!: read_event() returns a line's event or Ok(None) for a line that
\* is none (ui.rs:160-178)
SessReadLine ==
    /\ sbpc = "select"
    /\ sbpc' = "sleep"
    /\ UNCHANGED <<smode, sfpc, lock, s_chan, should_quit, send_errs,
                   read_errs, mon_errs, timeouts>>
    /\ UNCHANGED notSessVars

\* select!: read_event() returns Ok(None), its 100 ms have passed with no line
SessReadTimeout ==
    /\ sbpc = "select"
    /\ timeouts' = Min(timeouts + 1, MaxTimeouts)
    /\ sbpc' = AfterTimeout
    /\ UNCHANGED <<smode, sfpc, lock, s_chan, should_quit, send_errs,
                   read_errs, mon_errs>>
    /\ UNCHANGED notSessVars

\* select!: read_event() returns Err: the task goes to log "Read error"
\* (ui.rs:179-180)
SessReadFails ==
    /\ sbpc = "select"
    /\ sbpc' = "log_read"
    /\ UNCHANGED <<smode, sfpc, lock, s_chan, should_quit, send_errs,
                   read_errs, mon_errs, timeouts>>
    /\ UNCHANGED notSessVars

\* select!: rx_cmd.recv() returns Some(msg); send_broadcast starts
SessRecvCommand ==
    /\ sbpc = "select"
    /\ s_chan > 0
    /\ s_chan' = s_chan - 1
    /\ sbpc' = "sending"
    /\ UNCHANGED <<smode, sfpc, lock, should_quit, send_errs, read_errs,
                   mon_errs, timeouts>>
    /\ UNCHANGED notSessVars

\* select!: rx_cmd.recv() returns None, the sender is gone: break (ui.rs:193)
SessRecvClosed ==
    /\ sbpc = "select"
    /\ s_chan = 0
    /\ sfpc = "failed"
    /\ sbpc' = "ended"
    /\ UNCHANGED <<smode, sfpc, lock, s_chan, should_quit, send_errs,
                   read_errs, mon_errs, timeouts>>
    /\ UNCHANGED notSessVars

\* send_broadcast returns Ok
SessSendOk ==
    /\ sbpc = "sending"
    /\ sbpc' = "sleep"
    /\ UNCHANGED <<smode, sfpc, lock, s_chan, should_quit, send_errs,
                   read_errs, mon_errs, timeouts>>
    /\ UNCHANGED notSessVars

\* send_broadcast returns Err, whatever the failure: the task goes to log
\* "Send error" (ui.rs:189-190)
SessSendFails ==
    /\ sbpc = "sending"
    /\ sbpc' = "log_send"
    /\ UNCHANGED <<smode, sfpc, lock, s_chan, should_quit, send_errs,
                   read_errs, mon_errs, timeouts>>
    /\ UNCHANGED notSessVars

\* app_clone.lock().unwrap(): the mutex is free and the task takes it
SessBgLock ==
    /\ sbpc \in BgLogging
    /\ lock = "none"
    /\ lock' = "bg"
    /\ UNCHANGED <<smode, sfpc, sbpc, s_chan, should_quit, send_errs,
                   read_errs, mon_errs, timeouts>>
    /\ UNCHANGED notSessVars

\* .add_error(format!(..)); the guard, a temporary, is dropped at the end
\* of the statement. Then `return` (ui.rs:154), `break` (ui.rs:181), or on
\* to the sleep (ui.rs:191-198)
SessBgLog ==
    /\ sbpc \in BgLogging
    /\ lock = "bg"
    /\ lock' = GuardDropped
    /\ mon_errs' = IF sbpc = "log_monitor" THEN mon_errs + 1 ELSE mon_errs
    /\ read_errs' = IF sbpc = "log_read" THEN read_errs + 1 ELSE read_errs
    /\ send_errs' = IF sbpc = "log_send" THEN Min(send_errs + 1, MaxSendErrs)
                    ELSE send_errs
    /\ sbpc' = IF sbpc = "log_send" THEN AfterSendError ELSE "ended"
    /\ UNCHANGED <<smode, sfpc, s_chan, should_quit, timeouts>>
    /\ UNCHANGED notSessVars

\* tokio::time::sleep(10 ms), then the next select! (ui.rs:198)
SessSleep ==
    /\ sbpc = "sleep"
    /\ sbpc' = "select"
    /\ UNCHANGED <<smode, sfpc, lock, s_chan, should_quit, send_errs,
                   read_errs, mon_errs, timeouts>>
    /\ UNCHANGED notSessVars

\* Device::monitor: enter_monitor_mode().await? and ctrlc_async(..)? succeed
MonEnter ==
    /\ sfpc = "m_enter"
    /\ sfpc' = "m_check"
    /\ UNCHANGED <<smode, sbpc, lock, s_chan, should_quit, send_errs,
                   read_errs, mon_errs, timeouts>>
    /\ UNCHANGED notSessVars

\* enter_monitor_mode().await? or ctrlc_async(..)? fails: monitor returns Err
MonEnterFails ==
    /\ sfpc = "m_enter"
    /\ sfpc' = "exit"
    /\ UNCHANGED <<smode, sbpc, lock, s_chan, should_quit, send_errs,
                   read_errs, mon_errs, timeouts>>
    /\ UNCHANGED notSessVars

\* Ctrl+C: the handler stores running = false (device.rs:162-164)
MonInterrupt ==
    /\ smode = "monitor"
    /\ sfpc \in {"m_check", "m_read", "m_sleep"}
    /\ ~should_quit
    /\ should_quit' = TRUE
    /\ UNCHANGED <<smode, sfpc, sbpc, lock, s_chan, send_errs, read_errs,
                   mon_errs, timeouts>>
    /\ UNCHANGED notSessVars

\* while running.load(SeqCst) (device.rs:167)
MonCheck ==
    /\ sfpc = "m_check"
    /\ sfpc' = IF should_quit THEN "exit" ELSE "m_read"
    /\ UNCHANGED <<smode, sbpc, lock, s_chan, should_quit, send_errs,
                   read_errs, mon_errs, timeouts>>
    /\ UNCHANGED notSessVars

\* read_event() returns a line's event (the callback runs) or none for it
MonReadLine ==
    /\ sfpc = "m_read"
    /\ sfpc' = "m_sleep"
    /\ UNCHANGED <<smode, sbpc, lock, s_chan, should_quit, send_errs,
                   read_errs, mon_errs, timeouts>>
    /\ UNCHANGED notSessVars

\* read_event() returns Ok(None), its 100 ms have passed with no line
MonReadTimeout ==
    /\ sfpc = "m_read"
    /\ timeouts' = Min(timeouts + 1, MaxTimeouts)
    /\ sfpc' = IF AfterTimeout = "sleep" THEN "m_sleep" ELSE "exit"
    /\ UNCHANGED <<smode, sbpc, lock, s_chan, should_quit, send_errs,
                   read_errs, mon_errs>>
    /\ UNCHANGED notSessVars

\* read_event().await? fails: monitor returns Err (device.rs:168)
MonReadFails ==
    /\ sfpc = "m_read"
    /\ read_errs' = read_errs + 1
    /\ sfpc' = "exit"
    /\ UNCHANGED <<smode, sbpc, lock, s_chan, should_quit, send_errs, mon_errs,
                   timeouts>>
    /\ UNCHANGED notSessVars

\* tokio::time::sleep(10 ms) (device.rs:187)
MonSleep ==
    /\ sfpc = "m_sleep"
    /\ sfpc' = "m_check"
    /\ UNCHANGED <<smode, sbpc, lock, s_chan, should_quit, send_errs,
                   read_errs, mon_errs, timeouts>>
    /\ UNCHANGED notSessVars

\* the steps of the foreground task, of the device task, of the user
SessFgNext ==
    \/ SessDraw
    \/ SessDrawFails
    \/ SessCheckQuit
    \/ SessNoKey
    \/ SessPollFails
    \/ SessKeyQuit
    \/ SessKeyEnter
    \/ SessSendResume
    \/ SessCleanup
    \/ SessCleanupFails
    \/ SessShutdown
    \/ MonEnter
    \/ MonEnterFails
    \/ MonCheck
    \/ MonReadLine
    \/ MonReadTimeout
    \/ MonReadFails
    \/ MonSleep

SessBgNext ==
    \/ SessEnterMonitor
    \/ SessEnterMonitorFails
    \/ SessReadLine
    \/ SessReadTimeout
    \/ SessReadFails
    \/ SessRecvCommand
    \/ SessRecvClosed
    \/ SessSendOk
    \/ SessSendFails
    \/ SessBgLock
    \/ SessBgLog
    \/ SessSleep

SessNext ==
    \/ SessDraw
    \/ SessDrawFails
    \/ SessCheckQuit
    \/ SessNoKey
    \/ SessPollFails
    \/ SessKeyQuit
    \/ SessKeyEnter
    \/ SessSendResume
    \/ SessCleanup
    \/ SessCleanupFails
    \/ SessShutdown
    \/ SessEnterMonitor
    \/ SessEnterMonitorFails
    \/ SessReadLine
    \/ SessReadTimeout
    \/ SessReadFails
    \/ SessRecvCommand
    \/ SessRecvClosed
    \/ SessSendOk
    \/ SessSendFails
    \/ SessBgLock
    \/ SessBgLog
    \/ SessSleep
    \/ MonEnter
    \/ MonEnterFails
    \/ MonInterrupt
    \/ MonCheck
    \/ MonReadLine
    \/ MonReadTimeout
    \/ MonReadFails
    \/ MonSleep

\* both tasks are scheduled as long as they can take a step
SpecSession ==
    /\ SessInit
    /\ [][SessNext]_vars
    /\ WF_vars(SessFgNext)
    /\ WF_vars(SessBgNext)

\* C21: a task that is suspended in an await (a channel send or receive, a
\* serial read or write, a timed wait) does not hold the App lock, and a
\* task takes the lock only when nobody holds it.
C21_NoLockAcrossSuspension ==
    /\ FgSuspended => lock # "fg"
    /\ BgSuspended => lock # "bg"

\* C21: the state in which the bug shows: the foreground is suspended in
\* tx_cmd.send(msg).await on a full channel with the guard of ui.rs:263 alive
C21_LockHeldInSend == sfpc = "send_wait" /\ lock = "fg" /\ s_chan = CMD_CHANNEL_CAP

\* the foreground loop has been left: run_ui_loop or Device::monitor returned
FgLoopLeft == sfpc \in {"returned", "failed", "exit"}

BgInLoop == sbpc \in {"select", "sending", "sleep", "log_read", "log_send"}

MaxSerial == 4          \* bytes the port delivers during one timed read
MaxBuffered == 1        \* bytes read_buf holds when the read is called

\* b'\n', b'\r', the frame delimiter, and a byte that is none of them
LF == 10
CR == 13
SerialBytes == {0, 1, LF, CR}

\* iter().position(|&b| b == d), 1-based; 0 for None
RECURSIVE Position(_, _)
Position(bytes, d) ==
    IF bytes = <<>> THEN 0
    ELSE IF Head(bytes) = d THEN 1
    ELSE LET q == Position(Tail(bytes), d) IN IF q = 0 THEN 0 ELSE q + 1

\* what each of the two reads looks for
Delimiter(op) == IF op = "read_line_timeout" THEN LF ELSE 0

\* String::from_utf8_lossy(..).trim_end() on the bytes of the model: the
\* trailing white space (CR, LF) goes
RECURSIVE LineOf(_)
LineOf(bytes) ==
    IF bytes # <<>> /\ bytes[Len(bytes)] \in {CR, LF}
    THEN LineOf(SubSeq(bytes, 1, Len(bytes) - 1)) ELSE bytes

SerialPending == [kind |-> "pending", v |-> <<>>]
SerialSome(x) == [kind |-> "some", v |-> x]
SerialErr(cause) == [kind |-> "err", v |-> cause]

\* a timed read that reports the expiry as a failure
TimeoutAsError == SerialErr("timeout")

\* Err(_) => Ok(None), // Timeout
TimeoutOutcome == [kind |-> "none", v |-> <<>>]

\* the delimiter was found: what the read returns for the bytes before it
Delivered(op, bytes) ==
    IF op = "read_line_timeout"
    THEN SerialSome(LineOf(bytes))
    ELSE IF cobs_decode(bytes).some
         THEN SerialSome(cobs_decode(bytes).v)
         ELSE SerialErr("Invalid COBS frame")

\* a cut that takes the delimiter along
ThroughDelimiter(bytes, pos) == SubSeq(bytes, 1, pos)

\* encoded.extend_from_slice(&self.read_buf[..pos]); &line[..line.len()-1]
\* of the drained ..=pos
BeforeDelimiter(bytes, pos) == SubSeq(bytes, 1, pos - 1)

\* a read whose bytes live in the future that the timeout drops
DroppedOnTimeout(bytes) == <<>>

\* read_line and read_cobs_frame collect into self.read_buf (serial.rs:147,
\* 226), which outlives the future
KeptOnTimeout(bytes) == bytes

SerialInit ==
    /\ sr_pc = "reading"
    /\ sr_op \in {"read_line_timeout", "read_cobs_frame_timeout"}
    /\ sr_port \in SeqsUpTo(SerialBytes, MaxSerial)
    /\ sr_end \in {"open", "eof", "failing"}
    /\ sr_buf \in SeqsUpTo(SerialBytes \ {Delimiter(sr_op)}, MaxBuffered)
    /\ sr_res = SerialPending
    /\ sr_out = <<>>
    /\ sr_got = sr_buf
    /\ CodecIdle
    /\ ClassifyIdle
    /\ EngineIdle
    /\ HelperIdle
    /\ RecvIdle
    /\ SendIdle
    /\ TraceIdle
    /\ EventIdle
    /\ TuiIdle
    /\ SessIdle
    /\ LogIdle
    /\ NeighborIdle
    /\ InputIdle
    /\ AdvertIdle

\* the delimiter is in read_buf: the bytes up to it are drained and what is
\* before it is returned (serial.rs:135-138, 214-217, 230-231)
SerialTake ==
    /\ sr_pc = "reading"
    /\ Position(sr_buf, Delimiter(sr_op)) > 0
    /\ LET pos == Position(sr_buf, Delimiter(sr_op))
           res == Delivered(sr_op, BeforeDelimiter(sr_buf, pos))
       IN  /\ sr_res' = res
           /\ sr_out' = IF res.kind = "some" THEN Append(sr_out, res.v) ELSE sr_out
           /\ sr_buf' = SubSeq(sr_buf, pos + 1, Len(sr_buf))
    /\ sr_pc' = "done"
    /\ UNCHANGED <<sr_op, sr_port, sr_end, sr_got>>
    /\ UNCHANGED notSerialVars

\* no delimiter buffered: port.read(&mut tmp) returns n > 0 bytes, which are
\* appended to read_buf (serial.rs:142-147, 221-226)
SerialReadChunk ==
    /\ sr_pc = "reading"
    /\ Position(sr_buf, Delimiter(sr_op)) = 0
    /\ sr_port # <<>>
    /\ \E n \in 1..Min(Len(sr_port), READ_CHUNK) :
          /\ sr_buf' = sr_buf \o SubSeq(sr_port, 1, n)
          /\ sr_got' = sr_got \o SubSeq(sr_port, 1, n)
          /\ sr_port' = SubSeq(sr_port, n + 1, Len(sr_port))
    /\ UNCHANGED <<sr_pc, sr_op, sr_end, sr_res, sr_out>>
    /\ UNCHANGED notSerialVars

\* no delimiter buffered: port.read returns 0, bail!("EOF on serial port")
\* (serial.rs:144-146, 223-225)
SerialReadEof ==
    /\ sr_pc = "reading"
    /\ Position(sr_buf, Delimiter(sr_op)) = 0
    /\ sr_port = <<>>
    /\ sr_end = "eof"
    /\ sr_res' = SerialErr("eof")
    /\ sr_pc' = "done"
    /\ UNCHANGED <<sr_op, sr_port, sr_end, sr_buf, sr_out, sr_got>>
    /\ UNCHANGED notSerialVars

\* no delimiter buffered: port.read(..).await? fails (serial.rs:143, 222)
SerialReadFails ==
    /\ sr_pc = "reading"
    /\ Position(sr_buf, Delimiter(sr_op)) = 0
    /\ sr_end = "failing"
    /\ sr_res' = SerialErr("io")
    /\ sr_pc' = "done"
    /\ UNCHANGED <<sr_op, sr_port, sr_end, sr_buf, sr_out, sr_got>>
    /\ UNCHANGED notSerialVars

\* tokio::time::timeout: the read is pending in port.read when the time is
\* up (the bytes of sr_port, if any, have not arrived yet); the future is
\* dropped, self.read_buf lives on (serial.rs:153-157, 236-240)
SerialTimeout ==
    /\ sr_pc = "reading"
    /\ Position(sr_buf, Delimiter(sr_op)) = 0
    /\ sr_end = "open" \/ sr_port # <<>>
    /\ sr_res' = TimeoutOutcome
    /\ sr_buf' = KeptOnTimeout(sr_buf)
    /\ sr_pc' = "done"
    /\ UNCHANGED <<sr_op, sr_port, sr_end, sr_out, sr_got>>
    /\ UNCHANGED notSerialVars

\* the caller calls the same read again after a frame, a line or a timeout
SerialAgain ==
    /\ sr_pc = "done"
    /\ sr_res.kind \in {"some", "none"}
    /\ sr_res' = SerialPending
    /\ sr_pc' = "reading"
    /\ UNCHANGED <<sr_op, sr_port, sr_end, sr_buf, sr_out, sr_got>>
    /\ UNCHANGED notSerialVars

SerialNext ==
    \/ SerialTake
    \/ SerialReadChunk
    \/ SerialReadEof
    \/ SerialReadFails
    \/ SerialTimeout
    \/ SerialAgain

SpecSerialRead == SerialInit /\ [][SerialNext]_vars

MESSAGE_CAP == 1000     \* if self.messages.len() > 1000
MaxCalls == 1003        \* add_message calls of a run

\* a log that drops the entry just pushed
RemoveLast(msgs) == SubSeq(msgs, 1, Len(msgs) - 1)

\* self.messages.remove(0)
RemoveFirst(msgs) == Tail(msgs)

LogInit ==
    /\ app_messages = <<>>
    /\ app_calls = 0
    /\ CodecIdle
    /\ ClassifyIdle
    /\ EngineIdle
    /\ HelperIdle
    /\ RecvIdle
    /\ SendIdle
    /\ TraceIdle
    /\ EventIdle
    /\ TuiIdle
    /\ SessIdle
    /\ SerialIdle
    /\ NeighborIdle
    /\ InputIdle
    /\ AdvertIdle

\* add_message, reached through add_info, add_received, add_sent and add_error:
\* push, then remove(0) when the length has passed 1000
AddMessage ==
    /\ app_calls < MaxCalls
    /\ app_calls' = app_calls + 1
    /\ LET pushed == Append(app_messages, app_calls + 1)
       IN  app_messages' = IF Len(pushed) > MESSAGE_CAP
                           THEN RemoveFirst(pushed) ELSE pushed
    /\ UNCHANGED notLogVars

LogNext == AddMessage

SpecLog == LogInit /\ [][LogNext]_vars

\* C26: after n calls the log holds the entries of the last min(n, 1000)
\* calls, oldest first, so never more than 1000.
C26_BoundedLog ==
    LET kept == Min(app_calls, MESSAGE_CAP) IN
    /\ Len(app_messages) <= MESSAGE_CAP
    /\ app_messages = [i \in 1..kept |-> app_calls - kept + i]

\* two entries more than the log holds were added: the first two are gone
C26_Witness ==
    /\ app_calls = MESSAGE_CAP + 2
    /\ Len(app_messages) = MESSAGE_CAP
    /\ Head(app_messages) = 3

(***************************************************************************)
(* App::update_neighbor, ui.rs:104-115                                     *)
(***************************************************************************)
NEIGHBOR_TTL == 300     \* Duration::from_secs(300)

\* node hashes, names and signal strengths of the updates, and the seconds
\* that pass between two of them
NodeHashes == {1, 255}
NodeNames == {None, Some("a")}
Rssis == {-90, -40}
Pauses == {100, 199, 200}

\* format!("0x{:02x}", node_hash)
HexName == [h \in NodeHashes |-> IF h = 1 THEN "0x01" ELSE "0xff"]

\* name.unwrap_or_else(|| format!("0x{:02x}", node_hash))
DisplayName(h, name) == IF name.some THEN name.v ELSE HexName[h]

\* a table that keeps the old entry of the hash next to the new one
PushEntry(table, entry) == table \cup {entry}

\* HashMap::insert: the entry takes the place of the one with its key
HashMapInsert(table, entry) ==
    {x \in table : x.hash # entry.hash} \cup {entry}

\* a pass that keeps an entry seen exactly 300 s ago
FreshOrAtCutoff(age) == age <= NEIGHBOR_TTL

\* v.last_seen > cutoff, cutoff = Instant::now() - 300 s
Fresh(age) == age < NEIGHBOR_TTL

NoUpdate == [called |-> FALSE, hash |-> 0, name |-> None, rssi |-> 0]

NeighborInit ==
    /\ app_neighbors = {}
    /\ app_last = NoUpdate
    /\ CodecIdle
    /\ ClassifyIdle
    /\ EngineIdle
    /\ HelperIdle
    /\ RecvIdle
    /\ SendIdle
    /\ TraceIdle
    /\ EventIdle
    /\ TuiIdle
    /\ SessIdle
    /\ SerialIdle
    /\ LogIdle
    /\ InputIdle
    /\ AdvertIdle

\* update_neighbor(node_hash, name, rssi): insert with last_seen = now, then
\* retain what was seen after the cutoff
UpdateNeighbor ==
    /\ \E h \in NodeHashes, name \in NodeNames, rssi \in Rssis :
          LET entry == [hash |-> h, name |-> DisplayName(h, name),
                        rssi |-> rssi, age |-> 0]
              inserted == HashMapInsert(app_neighbors, entry)
          IN  /\ app_neighbors' = {x \in inserted : Fresh(x.age)}
              /\ app_last' = [called |-> TRUE, hash |-> h, name |-> name,
                              rssi |-> rssi]
    /\ UNCHANGED notNeighborVars

\* time passes with no update: every entry ages (an age past the cutoff is
\* kept as one second past it)
NeighborPause ==
    /\ \E d \in Pauses :
          app_neighbors' = {[x EXCEPT !.age = Min(x.age + d, NEIGHBOR_TTL + 1)] :
                              x \in app_neighbors}
    /\ app_last' = NoUpdate
    /\ UNCHANGED notNeighborVars

NeighborNext ==
    \/ UpdateNeighbor
    \/ NeighborPause

SpecNeighbors == NeighborInit /\ [][NeighborNext]_vars

\* C27: when update_neighbor(h, name, rssi) has returned, the table holds
\* one entry per hash at most, the entry of h carries the new rssi and the
\* new name (the hash in hex when no name was given) and was seen just now,
\* and no entry was last seen 300 s ago or longer.
C27_TableAfterUpdate ==
    app_last.called =>
        /\ \A x, y \in app_neighbors : x.hash = y.hash => x = y
        /\ \E x \in app_neighbors :
              /\ x.hash = app_last.hash
              /\ x.rssi = app_last.rssi
              /\ x.name = (IF app_last.name.some THEN app_last.name.v
                           ELSE HexName[app_last.hash])
              /\ x.age = 0
        /\ \A x \in app_neighbors : x.age < NEIGHBOR_TTL

\* an update found the other node's entry 299 s old and kept it
C27_Witness ==
    /\ app_last.called
    /\ \E x \in app_neighbors : x.hash # app_last.hash /\ x.age = NEIGHBOR_TTL - 1

\* C28: a frame whose text has none of the prefixes OK, ERR, PKT, PONG and
\* does not parse as a JSON object or array, text that opens with a brace
\* or bracket included, is skipped (and so counted and followed by the next
\* read); command() does not fail on it.
C28_UnparsableIsSkipped ==
    lpc = "classified" =>
        LET text == from_utf8_lossy(frame) IN
        (/\ \A a \in {"OK", "ERR", "PKT", "PONG"} : ~StartsWith(text, a)
         /\ ~IsJsonValue(Trim(text)))
            => outcome.act = "skip"

\* C29: a transport failure at any step of command(), the draining reads of
\* clear() included, ends the call at once with that failure; the failure
\* is the result only of a call that has ended, and the call has written
\* its frame once at most.
C29_TransportFailureIsFatal ==
    /\ g.clearFailed => (pc = "done" /\ result = TransportResult)
    /\ result = TransportResult => pc = "done"
    /\ inflight <= 1

\* C30: a command() that has ended has one of the four outcomes (a
\* Response, the timeout, the abort after too many skipped frames, a
\* transport failure) and has none before; it reads 50 frames at most, each
\* but the last a skipped one; and the engine that is idle again has its
\* skip count at zero.
C30_OneTerminalOutcome ==
    /\ pc = "done" => result.kind \in {"response", "timeout", "toomany", "transport"}
    /\ pc # "done" => result = NoResult
    /\ skip_count <= MAX_SKIP_FRAMES
    /\ g.nSkip <= MAX_SKIP_FRAMES
    /\ pc = "idle" => skip_count = 0

\* C31: the device task holds the App lock only inside one of its logging
\* statements; the step it takes with the lock adds one entry to the log
\* and gives the lock back, so the task has no lock when it goes on to
\* read_event, send_broadcast, a channel or its sleep.
C31_BgLockCoversOneLog ==
    /\ [](lock = "bg" => sbpc \in BgLogging)
    /\ [][(lock = "bg" /\ sbpc' # sbpc) =>
            /\ lock' = "none"
            /\ \/ mon_errs' = mon_errs + 1 /\ read_errs' = read_errs /\ send_errs' = send_errs
               \/ read_errs' = read_errs + 1 /\ mon_errs' = mon_errs /\ send_errs' = send_errs
               \/ /\ send_errs' = Min(send_errs + 1, MaxSendErrs)
                  /\ mon_errs' = mon_errs /\ read_errs' = read_errs]_vars
    /\ [](sbpc \in {"enter", "select", "sending", "sleep"} => lock # "bg")

\* the task logged a failed send and is back in its sleep without the lock
C31_Witness ==
    /\ sbpc = "sleep"
    /\ send_errs = 1
    /\ lock = "none"

\* C32: the foreground is never suspended in tx_cmd.send on the full
\* channel while the device task waits for the App lock.
C32_NoMutualBlock ==
    ~(/\ sfpc = "send_wait"
      /\ s_chan = CMD_CHANNEL_CAP
      /\ sbpc \in BgLogging
      /\ lock = "fg")

\* the stream cut at its delimiters: the complete segments, in order
RECURSIVE SegmentsOf(_, _)
SegmentsOf(bytes, d) ==
    LET pos == Position(bytes, d) IN
    IF pos = 0 THEN <<>>
    ELSE <<SubSeq(bytes, 1, pos - 1)>> \o SegmentsOf(SubSeq(bytes, pos + 1, Len(bytes)), d)

\* what is left of the stream after its first n segments
RECURSIVE AfterSegments(_, _, _)
AfterSegments(bytes, d, n) ==
    IF n = 0 THEN bytes
    ELSE AfterSegments(SubSeq(bytes, Position(bytes, d) + 1, Len(bytes)), d, n - 1)

\* C33: whatever the sizes of the chunks and wherever reads timed out, the
\* reads so far have returned the first delimited segments of the bytes
\* received, one each and in order, a frame as its decoding and a line
\* without its trailing white space, and read_buf holds exactly the bytes
\* received after them.
C33_ChunkingIndependent ==
    LET d    == Delimiter(sr_op)
        segs == SegmentsOf(sr_got, d)
    IN  /\ Len(sr_out) <= Len(segs)
        /\ \A i \in 1..Len(sr_out) :
              sr_out[i] = IF sr_op = "read_line_timeout" THEN LineOf(segs[i])
                          ELSE cobs_decode(segs[i]).v
        /\ sr_buf = AfterSegments(sr_got, d, Len(sr_out))

\* two frames came back in order, the second put together from bytes
\* buffered behind the first and bytes that came after a timed-out read
C33_Witness ==
    /\ sr_op = "read_cobs_frame_timeout"
    /\ Len(sr_out) = 2
    /\ sr_out[1] # sr_out[2]
    /\ sr_res.kind = "none"
    /\ sr_buf # <<>>

SpecRecvPacketFair == RecvInit /\ [][RecvNext]_vars /\ WF_vars(RecvNext)

\* C34: once recv_packet has read a 'PKT <len>' header and waits for the
\* payload it comes to an end, with the packet or with a failure.
C34_RecvTerminates == (kpc = "payload") ~> (kpc = "done")

(***************************************************************************)
(* The input line: the key handling of run_ui_loop, ui.rs:260-317, and the *)
(* rx_cmd branch of the device task, ui.rs:185-195.  App::input is a       *)
(* String: a sequence of UTF-8 bytes, "a" a one-byte character, "L" "c"    *)
(* the lead and the continuation byte of a two-byte character.  cursor is  *)
(* a usize that String::insert and String::remove take as a byte index.    *)
(***************************************************************************)
MaxInput == 3       \* bytes of the input line
MaxSubmits == 2     \* messages submitted in a run

\* KeyCode::Char(c): the characters typed, as char::encode_utf8 writes them
Chars == { <<"a">>, <<"L", "c">> }

\* str::is_char_boundary(idx): the start, the end, or a byte that is not a
\* continuation byte; false past the end
IsCharBoundary(s, idx) ==
    \/ idx = 0
    \/ idx = Len(s)
    \/ (idx < Len(s) /\ s[idx + 1] # "c")

\* the bytes of the character that starts at byte idx
WidthAt(s, idx) == IF s[idx + 1] = "L" THEN 2 ELSE 1

\* String::insert(idx, ch) asserts self.is_char_boundary(idx)
InsertPanics(s, idx) == ~IsCharBoundary(s, idx)
StringInsert(s, idx, ch) ==
    SubSeq(s, 1, idx) \o ch \o SubSeq(s, idx + 1, Len(s))

\* String::remove(idx) takes self[idx..].chars().next(): it panics when idx
\* is no character boundary and when no character starts there
RemovePanics(s, idx) == ~IsCharBoundary(s, idx) \/ idx >= Len(s)
StringRemove(s, idx) ==
    SubSeq(s, 1, idx) \o SubSeq(s, idx + WidthAt(s, idx) + 1, Len(s))

\* an Enter that submits whatever the input line holds
AnyInput(s) == TRUE

\* if !app.input.is_empty()
NonEmpty(s) == s # <<>>

\* format!("You: {}", text)
YouLine(text) == <<"You: ">> \o text

\* format!("SEND {}", message)
SendCommand(message) == <<"SEND", " ">> \o message

\* the key event that follows: its code, and one more event handled
NextKey(code) == [code |-> code, parity |-> 1 - ui_key.parity]

InputInit ==
    /\ app_input = <<>>
    /\ app_cursor = 0
    /\ ui_pc = "loop"
    /\ ui_key = [code |-> "none", parity |-> 0]
    /\ submitted = <<>>
    /\ sent_log = <<>>
    /\ tx_cmd = <<>>
    /\ rx_open = TRUE
    /\ port_tx = <<>>
    /\ CodecIdle
    /\ ClassifyIdle
    /\ EngineIdle
    /\ HelperIdle
    /\ RecvIdle
    /\ SendIdle
    /\ TraceIdle
    /\ EventIdle
    /\ TuiIdle
    /\ SessIdle
    /\ SerialIdle
    /\ LogIdle
    /\ NeighborIdle
    /\ AdvertIdle

\* KeyCode::Enter: a non-empty input is logged, cleared and sent to the
\* device task (`let _ =`: an Err of send, the receiver gone, is dropped)
KeyEnter ==
    /\ ui_pc = "loop"
    /\ ui_key' = NextKey("Enter")
    /\ IF NonEmpty(app_input)
          THEN /\ Len(submitted) < MaxSubmits
               /\ submitted' = Append(submitted, app_input)
               /\ sent_log' = Append(sent_log, YouLine(app_input))
               /\ app_input' = <<>>
               /\ app_cursor' = 0
               /\ tx_cmd' = IF rx_open THEN ChannelPush(tx_cmd, app_input)
                            ELSE tx_cmd
          ELSE UNCHANGED <<submitted, sent_log, app_input, app_cursor, tx_cmd>>
    /\ UNCHANGED <<ui_pc, rx_open, port_tx>>
    /\ UNCHANGED notInputVars

\* KeyCode::Char(c): app.input.insert(cursor, c); app.cursor += 1
KeyChar ==
    /\ ui_pc = "loop"
    /\ ui_key' = NextKey("Char")
    /\ \E ch \in Chars :
          /\ Len(app_input) + Len(ch) <= MaxInput
          /\ IF InsertPanics(app_input, app_cursor)
                THEN /\ ui_pc' = "panicked"
                     /\ UNCHANGED <<app_input, app_cursor>>
                ELSE /\ app_input' = StringInsert(app_input, app_cursor, ch)
                     /\ app_cursor' = app_cursor + 1
                     /\ UNCHANGED ui_pc
    /\ UNCHANGED <<submitted, sent_log, tx_cmd, rx_open, port_tx>>
    /\ UNCHANGED notInputVars

\* KeyCode::Backspace: if app.cursor > 0 { app.cursor -= 1;
\* app.input.remove(cursor) }
KeyBackspace ==
    /\ ui_pc = "loop"
    /\ ui_key' = NextKey("Backspace")
    /\ IF app_cursor > 0
          THEN /\ app_cursor' = app_cursor - 1
               /\ IF RemovePanics(app_input, app_cursor - 1)
                     THEN ui_pc' = "panicked" /\ UNCHANGED app_input
                     ELSE /\ app_input' = StringRemove(app_input, app_cursor - 1)
                          /\ UNCHANGED ui_pc
          ELSE UNCHANGED <<app_cursor, app_input, ui_pc>>
    /\ UNCHANGED <<submitted, sent_log, tx_cmd, rx_open, port_tx>>
    /\ UNCHANGED notInputVars

\* KeyCode::Delete: if cursor < app.input.len() { app.input.remove(cursor) }
KeyDelete ==
    /\ ui_pc = "loop"
    /\ ui_key' = NextKey("Delete")
    /\ IF app_cursor < Len(app_input)
          THEN IF RemovePanics(app_input, app_cursor)
                  THEN ui_pc' = "panicked" /\ UNCHANGED app_input
                  ELSE /\ app_input' = StringRemove(app_input, app_cursor)
                       /\ UNCHANGED ui_pc
          ELSE UNCHANGED <<app_input, ui_pc>>
    /\ UNCHANGED <<app_cursor, submitted, sent_log, tx_cmd, rx_open, port_tx>>
    /\ UNCHANGED notInputVars

\* KeyCode::Left: if app.cursor > 0 { app.cursor -= 1 }
KeyLeft ==
    /\ ui_pc = "loop"
    /\ ui_key' = NextKey("Left")
    /\ app_cursor' = IF app_cursor > 0 THEN app_cursor - 1 ELSE app_cursor
    /\ UNCHANGED <<app_input, ui_pc, submitted, sent_log, tx_cmd, rx_open,
                   port_tx>>
    /\ UNCHANGED notInputVars

\* KeyCode::Right: if app.cursor < app.input.len() { app.cursor += 1 }
KeyRight ==
    /\ ui_pc = "loop"
    /\ ui_key' = NextKey("Right")
    /\ app_cursor' = IF app_cursor < Len(app_input) THEN app_cursor + 1
                     ELSE app_cursor
    /\ UNCHANGED <<app_input, ui_pc, submitted, sent_log, tx_cmd, rx_open,
                   port_tx>>
    /\ UNCHANGED notInputVars

\* KeyCode::Home: app.cursor = 0
KeyHome ==
    /\ ui_pc = "loop"
    /\ ui_key' = NextKey("Home")
    /\ app_cursor' = 0
    /\ UNCHANGED <<app_input, ui_pc, submitted, sent_log, tx_cmd, rx_open,
                   port_tx>>
    /\ UNCHANGED notInputVars

\* KeyCode::End: app.cursor = app.input.len()
KeyEnd ==
    /\ ui_pc = "loop"
    /\ ui_key' = NextKey("End")
    /\ app_cursor' = Len(app_input)
    /\ UNCHANGED <<app_input, ui_pc, submitted, sent_log, tx_cmd, rx_open,
                   port_tx>>
    /\ UNCHANGED notInputVars

\* any other key: `_ => {}`
KeyOther ==
    /\ ui_pc = "loop"
    /\ ui_key' = NextKey("Other")
    /\ UNCHANGED <<app_input, app_cursor, ui_pc, submitted, sent_log, tx_cmd,
                   rx_open, port_tx>>
    /\ UNCHANGED notInputVars

\* the device task: rx_cmd.recv() hands out Some(msg) and send_broadcast(&msg)
\* writes its command frame, or fails before the frame is complete
InputDispatch ==
    /\ rx_open
    /\ tx_cmd # <<>>
    /\ tx_cmd' = Tail(tx_cmd)
    /\ \E wrote \in BOOLEAN :
          port_tx' = IF wrote THEN Append(port_tx, SendCommand(Head(tx_cmd)))
                     ELSE port_tx
    /\ UNCHANGED <<app_input, app_cursor, ui_pc, ui_key, submitted, sent_log,
                   rx_open>>
    /\ UNCHANGED notInputVars

\* the device task ends (a read error breaks its loop): rx_cmd is dropped and
\* the messages in the channel with it
InputTaskEnds ==
    /\ rx_open
    /\ rx_open' = FALSE
    /\ tx_cmd' = <<>>
    /\ UNCHANGED <<app_input, app_cursor, ui_pc, ui_key, submitted, sent_log,
                   port_tx>>
    /\ UNCHANGED notInputVars

InputNext ==
    \/ KeyEnter
    \/ KeyChar
    \/ KeyBackspace
    \/ KeyDelete
    \/ KeyLeft
    \/ KeyRight
    \/ KeyHome
    \/ KeyEnd
    \/ KeyOther
    \/ InputDispatch
    \/ InputTaskEnds

SpecInput == InputInit /\ [][InputNext]_vars

\* a is b with some of its elements left out, the rest in b's order
RECURSIVE IsSubSeq(_, _)
IsSubSeq(a, b) ==
    IF a = <<>> THEN TRUE
    ELSE IF b = <<>> THEN FALSE
    ELSE IF Head(a) = Head(b) THEN IsSubSeq(Tail(a), Tail(b))
    ELSE IsSubSeq(a, Tail(b))

\* C37: Enter on a non-empty input line logs the line as sent, clears the
\* input, puts the cursor at 0 and hands the line to the device task; no
\* other key event and no Enter on an empty line puts a message into the
\* channel; the commands written to the device are the submitted lines,
\* each at most once, in the order of submission, and no other.
C37_SubmitOnceInOrder ==
    /\ [][(ui_key' # ui_key /\ ui_key'.code = "Enter" /\ app_input # <<>>) =>
             /\ sent_log' = Append(sent_log, <<"You: ">> \o app_input)
             /\ app_input' = <<>>
             /\ app_cursor' = 0
             /\ rx_open => tx_cmd' = Append(tx_cmd, app_input)]_vars
    /\ [][Len(tx_cmd') > Len(tx_cmd) =>
             /\ ui_key' # ui_key
             /\ ui_key'.code = "Enter"
             /\ app_input # <<>>
             /\ Len(tx_cmd') = Len(tx_cmd) + 1]_vars
    /\ [](/\ Len(sent_log) = Len(submitted)
          /\ IsSubSeq(port_tx \o [i \in 1..Len(tx_cmd) |-> <<"SEND", " ">> \o tx_cmd[i]],
                      [i \in 1..Len(submitted) |-> <<"SEND", " ">> \o submitted[i]]))

\* two different lines, one of them with a two-byte character, were
\* submitted and both were written to the device, in that order
C37_Witness ==
    /\ Len(port_tx) = MaxSubmits
    /\ submitted[1] # submitted[2]
    /\ port_tx[1] = <<"SEND", " ">> \o submitted[1]
    /\ port_tx[2] = <<"SEND", " ">> \o submitted[2]
    /\ \E i \in 1..Len(submitted[1]) : submitted[1][i] = "L"
    /\ ui_key.code = "Enter"
    /\ app_input = <<>>
    /\ app_cursor = 0

\* C39: after any sequence of key events the cursor is at most the length
\* of the input line and lies on a character boundary of it.
C39_CursorOnCharBoundary ==
    /\ app_cursor >= 0
    /\ app_cursor <= Len(app_input)
    /\ IsCharBoundary(app_input, app_cursor)

(***************************************************************************)
(* cmd_advert, commands/network.rs:20-45, with Device::send_advert_local   *)
(* and Device::send_advert_flood, device.rs:193-203                        *)
(***************************************************************************)
\* let send_local = !flood_only
send_local == ~flood_only
\* let send_flood = !local_only
send_flood == ~local_only
\* let send_both = !local_only && !flood_only
send_both == ~local_only /\ ~flood_only

Written(cmd) == [op |-> "write", cmd |-> cmd, reply |-> NoResult]
Answered(cmd, r) == [op |-> "reply", cmd |-> cmd, reply |-> r]

\* self.protocol.command(..).await?: Err is passed up, any Response is Ok
AdvertAfterReply(r, next) == IF r.kind = "response" THEN next ELSE "done"
AdvertResult(r, res) == IF r.kind = "response" THEN res ELSE "err"

AdvertInit ==
    /\ adv_pc = "connect"
    /\ local_only \in BOOLEAN
    /\ flood_only \in BOOLEAN
    /\ adv_trace = <<>>
    /\ adv_res = "none"
    /\ CodecIdle
    /\ ClassifyIdle
    /\ EngineIdle
    /\ HelperIdle
    /\ RecvIdle
    /\ SendIdle
    /\ TraceIdle
    /\ EventIdle
    /\ TuiIdle
    /\ SessIdle
    /\ SerialIdle
    /\ LogIdle
    /\ NeighborIdle
    /\ InputIdle

\* Device::connect(port, baud).await? returns the device
AdvertConnect ==
    /\ adv_pc = "connect"
    /\ adv_pc' = "local"
    /\ UNCHANGED <<local_only, flood_only, adv_trace, adv_res>>
    /\ UNCHANGED notAdvertVars

\* Device::connect(port, baud).await? fails
AdvertConnectFails ==
    /\ adv_pc = "connect"
    /\ adv_pc' = "done"
    /\ adv_res' = "err"
    /\ UNCHANGED <<local_only, flood_only, adv_trace>>
    /\ UNCHANGED notAdvertVars

\* if send_local || send_both: send_advert_local writes its command
AdvertWriteLocal ==
    /\ adv_pc = "local"
    /\ send_local \/ send_both
    /\ adv_trace' = Append(adv_trace, Written("ADVERT LOCAL"))
    /\ adv_pc' = "local_reply"
    /\ UNCHANGED <<local_only, flood_only, adv_res>>
    /\ UNCHANGED notAdvertVars

\* the condition is false: no local advertisement
AdvertSkipLocal ==
    /\ adv_pc = "local"
    /\ ~(send_local \/ send_both)
    /\ adv_pc' = "flood"
    /\ UNCHANGED <<local_only, flood_only, adv_trace, adv_res>>
    /\ UNCHANGED notAdvertVars

\* command("ADVERT LOCAL") returns
AdvertLocalReply ==
    /\ adv_pc = "local_reply"
    /\ \E r \in CommandResults :
          /\ adv_trace' = Append(adv_trace, Answered("ADVERT LOCAL", r))
          /\ adv_pc' = AdvertAfterReply(r, "flood")
          /\ adv_res' = AdvertResult(r, adv_res)
    /\ UNCHANGED <<local_only, flood_only>>
    /\ UNCHANGED notAdvertVars

\* if send_flood || send_both: after 200 ms when send_both,
\* send_advert_flood writes its command
AdvertWriteFlood ==
    /\ adv_pc = "flood"
    /\ send_flood \/ send_both
    /\ adv_trace' = Append(adv_trace, Written("ADVERT FLOOD"))
    /\ adv_pc' = "flood_reply"
    /\ UNCHANGED <<local_only, flood_only, adv_res>>
    /\ UNCHANGED notAdvertVars

\* the condition is false: no flood advertisement, Ok(())
AdvertSkipFlood ==
    /\ adv_pc = "flood"
    /\ ~(send_flood \/ send_both)
    /\ adv_pc' = "done"
    /\ adv_res' = "ok"
    /\ UNCHANGED <<local_only, flood_only, adv_trace>>
    /\ UNCHANGED notAdvertVars

\* command("ADVERT FLOOD") returns, and cmd_advert after it
AdvertFloodReply ==
    /\ adv_pc = "flood_reply"
    /\ \E r \in CommandResults :
          /\ adv_trace' = Append(adv_trace, Answered("ADVERT FLOOD", r))
          /\ adv_res' = AdvertResult(r, "ok")
    /\ adv_pc' = "done"
    /\ UNCHANGED <<local_only, flood_only>>
    /\ UNCHANGED notAdvertVars

AdvertNext ==
    \/ AdvertConnect
    \/ AdvertConnectFails
    \/ AdvertWriteLocal
    \/ AdvertSkipLocal
    \/ AdvertLocalReply
    \/ AdvertWriteFlood
    \/ AdvertSkipFlood
    \/ AdvertFloodReply

SpecAdvert == AdvertInit /\ [][AdvertNext]_vars

\* C40: cmd_advert returns Ok only when it has written an advertisement
\* command, whatever the two flags are; when it has written both, ADVERT
\* LOCAL was written and answered before ADVERT FLOOD was written.
C40_SuccessMeansSent ==
    /\ (adv_pc = "done" /\ adv_res = "ok") =>
          \E i \in 1..Len(adv_trace) : adv_trace[i].op = "write"
    /\ \A i \in 1..Len(adv_trace) :
          (adv_trace[i].op = "write" /\ adv_trace[i].cmd = "ADVERT FLOOD"
             /\ \E j \in 1..Len(adv_trace) : adv_trace[j].cmd = "ADVERT LOCAL")
          => /\ i = 3
             /\ adv_trace[1] = [op |-> "write", cmd |-> "ADVERT LOCAL", reply |-> NoResult]
             /\ adv_trace[2].op = "reply"
             /\ adv_trace[2].cmd = "ADVERT LOCAL"

====
